---- MODULE Spec2Model ----
(***************************************************************************)
(* Sales AI assistant: the extraction pipeline (ai_crm.py, models.py), the *)
(* duplicate detector and client store (database.py) and the new-client    *)
(* flow of the presentation layer (app.py).                                *)
(*                                                                         *)
(* Text is modelled by TLA+ strings; a character is a string of length 1.  *)
(* Floating-point scores are modelled by exact reduced fractions           *)
(* [n |-> numerator, d |-> denominator].                                   *)
(***************************************************************************)
EXTENDS Integers, Sequences, FiniteSets, TLC

(***************************************************************************)
(* Python values                                                           *)
(***************************************************************************)

\* Python's None (SQL NULL); no input text equals it.
None == "<None>"

\* Python truthiness of an Optional[str]: None and "" are falsy.
Truthy(s) == s # None /\ s # ""

\* An optional value: a key absent from st.session_state, or a call that
\* returned nothing, is <<>>; a present value v is <<v>>.
Absent == <<>>
Present(v) == <<v>>

\* s[i-1:j] of Python (positions are 1-based here): out-of-range bounds are clamped.
Slice(s, i, j) ==
    IF (IF i < 1 THEN 1 ELSE i) > (IF j > Len(s) THEN Len(s) ELSE j) THEN ""
    ELSE SubSeq(s, IF i < 1 THEN 1 ELSE i, IF j > Len(s) THEN Len(s) ELSE j)

\* The character at position i; "" outside the text.
Char(s, i) == Slice(s, i, i)

\* str.lower() on one character, for the letters the inputs use.
LowerChar(c) ==
    CASE c = "A" -> "a" [] c = "B" -> "b" [] c = "C" -> "c" [] c = "D" -> "d"
      [] c = "E" -> "e" [] c = "F" -> "f" [] c = "G" -> "g" [] c = "H" -> "h"
      [] c = "I" -> "i" [] c = "J" -> "j" [] c = "K" -> "k" [] c = "L" -> "l"
      [] c = "M" -> "m" [] c = "N" -> "n" [] c = "O" -> "o" [] c = "P" -> "p"
      [] c = "Q" -> "q" [] c = "R" -> "r" [] c = "S" -> "s" [] c = "T" -> "t"
      [] c = "U" -> "u" [] c = "V" -> "v" [] c = "W" -> "w" [] c = "X" -> "x"
      [] c = "Y" -> "y" [] c = "Z" -> "z"
      [] OTHER -> c

\* str.lower(): character by character, halving the text.
RECURSIVE Lower(_)
Lower(s) ==
    IF Len(s) = 0 THEN ""
    ELSE IF Len(s) = 1 THEN LowerChar(s)
    ELSE Lower(SubSeq(s, 1, Len(s) \div 2))
         \o Lower(SubSeq(s, Len(s) \div 2 + 1, Len(s)))

(***************************************************************************)
(* Exact fractions for the float scores                                    *)
(***************************************************************************)

RECURSIVE Gcd(_, _)
Gcd(a, b) == IF b = 0 THEN a ELSE Gcd(b, a % b)

\* The fraction n/d (d > 0, n >= 0) in lowest terms.
Frac(n, d) ==
    LET g == Gcd(n, d) IN [n |-> n \div g, d |-> d \div g]

FracInt(k) == [n |-> k, d |-> 1]

FracAdd(x, y) == Frac(x.n * y.d + y.n * x.d, x.d * y.d)

\* x scaled by the decimal p/10 (0.7 is 7/10, 0.3 is 3/10).
FracTenths(x, p) == Frac(x.n * p, x.d * 10)

\* x >= y
FracGE(x, y) == x.n * y.d >= y.n * x.d

(***************************************************************************)
(* difflib.SequenceMatcher(None, a, b).ratio(), as _calculate_similarity   *)
(* uses it: no junk, and autojunk never applies below 200 characters.      *)
(* Indices are 0-based and ranges half-open, as in difflib.                *)
(***************************************************************************)

\* Length of the common run of a[i:ahi] and b[j:bhi] starting at i and j.
RECURSIVE RunLen(_, _, _, _, _, _)
RunLen(a, b, i, j, ahi, bhi) ==
    IF i < ahi /\ j < bhi /\ Char(a, i + 1) = Char(b, j + 1)
    THEN 1 + RunLen(a, b, i + 1, j + 1, ahi, bhi)
    ELSE 0

\* Of the blocks <<i, j, size>> in S, the one starting earliest in a and, of
\* those, earliest in b.
EarliestBlock(S) ==
    CHOOSE m \in S :
        \A o \in S : m[1] < o[1] \/ (m[1] = o[1] /\ m[2] <= o[2])

LargestSize(S) == CHOOSE n \in S : \A o \in S : n >= o

\* Of the blocks in Blocks, a longest one, the earliest of the longest;
\* (alo, blo, 0) when nothing matches.
BestBlock(Blocks, size, alo, blo) ==
    IF size = 0 THEN <<alo, blo, 0>>
    ELSE EarliestBlock({ m \in Blocks : m[3] = size })

PickBlock(Blocks, alo, blo) ==
    BestBlock(Blocks, LargestSize({ m[3] : m \in Blocks } \cup {0}), alo, blo)

\* SequenceMatcher.find_longest_match: the longest matching block of
\* a[alo:ahi] and b[blo:bhi]; of the longest, the one starting earliest in a,
\* and of those the one starting earliest in b.
find_longest_match(a, b, alo, ahi, blo, bhi) ==
    PickBlock({ <<i, j, RunLen(a, b, i, j, ahi, bhi)>> :
                    i \in alo..(ahi - 1), j \in blo..(bhi - 1) }, alo, blo)

\* Sum of the sizes of SequenceMatcher.get_matching_blocks: the longest
\* match m = (i, j, k), then the same to its left and to its right.
RECURSIVE MatchSize(_, _, _, _, _, _)
RECURSIVE MatchAround(_, _, _, _, _, _, _)
MatchAround(a, b, alo, ahi, blo, bhi, m) ==
    IF m[3] = 0 THEN 0
    ELSE m[3]
         + (IF alo < m[1] /\ blo < m[2]
            THEN MatchSize(a, b, alo, m[1], blo, m[2]) ELSE 0)
         + (IF m[1] + m[3] < ahi /\ m[2] + m[3] < bhi
            THEN MatchSize(a, b, m[1] + m[3], ahi, m[2] + m[3], bhi) ELSE 0)

MatchSize(a, b, alo, ahi, blo, bhi) ==
    MatchAround(a, b, alo, ahi, blo, bhi,
                find_longest_match(a, b, alo, ahi, blo, bhi))

\* SequenceMatcher.ratio() * 100 = 2.0 * matches / (len(a) + len(b)) * 100
RatioPercent(a, b) ==
    IF Len(a) + Len(b) = 0 THEN FracInt(100)
    ELSE Frac(200 * MatchSize(a, b, 0, Len(a), 0, Len(b)), Len(a) + Len(b))

\* Database._calculate_similarity
calculate_similarity(str1, str2) ==
    IF ~Truthy(str1) \/ ~Truthy(str2) THEN FracInt(0)
    ELSE RatioPercent(Lower(str1), Lower(str2))

(***************************************************************************)
(* Inputs                                                                  *)
(***************************************************************************)

\* Texts given to the similarity scorer: names and companies, with and
\* without capitals, and texts that share their characters in another order.
SimilarityTexts ==
    {"", "Jon", "John", "jon", "Bo", "Acme", "Acme Inc", "acme", "tide", "diet",
     "abcab", "bcabc"}

\* Largest number of client rows ever inserted (AUTOINCREMENT ids 1..MaxClients).
MaxClients == 2

\* config.DUPLICATE_SIMILARITY_THRESHOLD
DUPLICATE_SIMILARITY_THRESHOLD == 85

\* models.ClientBase: Field(..., min_length=1, max_length=100)
MinNameLen == 1
MaxFieldLen == 100

\* A name of 101 characters, one more than ClientBase allows.
LongName ==
    "Jonnnnnnnnnnnnnnnnnnnnnnnnnnnnnnnnnnnnnnnnnnnnnnnnnnnnnnnnnnnnnnnnnnnnnnnnnnnnnnnnnnnnnnnnnnnnnnnnnnn"

\* What a caller of the Record Store can pass in a ClientCreate: company and
\* email may be None.
Candidates ==
    { [name |-> "Jon",  company |-> "Acme", email |-> "j@x"],
      [name |-> "John", company |-> "Acme", email |-> ""],
      [name |-> "Bo",   company |-> "",     email |-> "J@X"],
      [name |-> "Jon",  company |-> None,   email |-> None] }

\* What the new-client form can submit: st.text_input yields "" for an empty
\* box and sets no limit on the length.
FormInputs ==
    { [name |-> "Jon",  company |-> "Acme", email |-> "j@x"],
      [name |-> "John", company |-> "Acme", email |-> ""],
      [name |-> "Bo",   company |-> "",     email |-> "J@X"],
      [name |-> LongName, company |-> "",   email |-> "j@x"] }

(***************************************************************************)
(* State                                                                   *)
(***************************************************************************)

VARIABLES
    clients,          \* table clients, in rowid order: [id, name, company, email, created_at, is_active]
    clientSeq,        \* AUTOINCREMENT: the largest client id ever assigned
    lastCall,         \* the most recent Record Store call, its arguments and its outcome
    pending_client,   \* st.session_state.pending_client
    duplicate_data,   \* st.session_state.duplicate_data
    new_client_id,    \* st.session_state.new_client_id
    client_id,        \* st.session_state.client_id
    st_error,         \* the st.error message of the handler that ran last, if any
    crm_data,         \* st.session_state.crm_data
    ss_conversation,  \* st.session_state.conversation
    ss_followups,     \* st.session_state.followups
    ss_saved,         \* history: the ids Save stored for the result the session holds
    val_input,        \* the text validate_json_output is called with, "" when it is not called
    val_outcome,      \* what that call gave: the CRMData returned or the error raised
    sim_input,        \* the two texts _calculate_similarity is called with, <<>> when it is not called
    sim_result,       \* <<>>, or the scores of the texts in the order given and in the other order
    gen_pc,           \* where FollowUpGenerator.generate stands: "idle", "email", "message", "done"
    gen_args,         \* generate: the client found and crm_data, <<>> outside a run
    gen_sent,         \* the prompts of the generation calls made by this run of generate
    gen_replies,      \* the texts those calls returned
    writers,          \* each concurrent caller of create_client: where it stands and what it holds
    gen_out,          \* the outcome of generate: the FollowUpContent returned or the error raised
    interactions,     \* table interactions, in rowid order
    interSeq,         \* AUTOINCREMENT: the largest interaction id ever assigned
    followups,        \* table followups, in rowid order
    followupSeq,      \* AUTOINCREMENT: the largest followup id ever assigned
    provider,         \* CRMExtractor.provider of the extractor built last, "" before the first
    ex_pc,            \* where CRMExtractor.extract stands: "idle", "first", "retry", "done"
    prompt,           \* extract: the prompt built from the conversation and the context
    sent,             \* the prompts of the generation calls made by this run of extract
    replies,          \* what each generation call gave: a text or a provider error
    raw_output,       \* extract: raw_output, the text of the last generation call
    extracted         \* the outcome of extract: the CRMData returned or the error raised

dbVars == <<clients, clientSeq>>
sessionVars == <<pending_client, duplicate_data, new_client_id, client_id>>
exVars == <<provider, ex_pc, prompt, sent, replies, raw_output, extracted>>
crmVars == <<interactions, interSeq, followups, followupSeq>>
saveVars == <<crm_data, ss_conversation, ss_followups, ss_saved>>
valVars == <<val_input, val_outcome>>
simVars == <<sim_input, sim_result>>
genVars == <<gen_pc, gen_args, gen_sent, gen_replies, gen_out>>
storeVars == <<clients, clientSeq, lastCall, pending_client, duplicate_data,
               new_client_id, client_id, st_error, interactions, interSeq,
               followups, followupSeq, crm_data, ss_conversation, ss_followups,
               ss_saved, val_input, val_outcome, sim_input, sim_result, gen_pc, gen_args,
               gen_sent, gen_replies, gen_out, writers>>
vars == <<clients, clientSeq, lastCall, pending_client, duplicate_data,
          new_client_id, client_id, st_error, interactions, interSeq, followups,
          followupSeq, crm_data, ss_conversation, ss_followups, ss_saved,
          val_input, val_outcome, sim_input, sim_result, gen_pc, gen_args, gen_sent,
          gen_replies, gen_out, writers, provider, ex_pc,
          prompt, sent, replies, raw_output, extracted>>

Range(seq) == { seq[i] : i \in 1..Len(seq) }

(***************************************************************************)
(* Duplicate detector (database.py)                                        *)
(***************************************************************************)

\* WHERE is_active = 1 OR is_active IS NULL (the column is never NULL: it is
\* created with DEFAULT 1 and every INSERT sets it).
IsActive(row) == row.is_active = 1

\* Variant: name and company weighted alike.
TotalScoreEven(name_similarity, email_match, company_similarity) ==
    IF email_match THEN FracInt(100)
    ELSE FracAdd(FracTenths(name_similarity, 5), FracTenths(company_similarity, 5))

\* scores['total_score']: 100 on an email match, else the weighted sum.
TotalScore(name_similarity, email_match, company_similarity) ==
    IF email_match THEN FracInt(100)
    ELSE FracAdd(FracTenths(name_similarity, 7), FracTenths(company_similarity, 3))

\* The scores dict; 'email_similarity' is set when both emails are there and differ.
Scores(row, name_similarity, email_match, email_similarity, company_similarity) ==
    [k \in {"id", "name", "company", "email", "name_similarity", "email_match",
            "company_similarity", "total_score"}
           \cup (IF email_similarity = Absent THEN {} ELSE {"email_similarity"}) |->
        CASE k = "id" -> row.id
          [] k = "name" -> row.name
          [] k = "company" -> row.company
          [] k = "email" -> row.email
          [] k = "name_similarity" -> name_similarity
          [] k = "email_match" -> email_match
          [] k = "company_similarity" -> company_similarity
          [] k = "email_similarity" -> email_similarity[1]
          [] k = "total_score" ->
                TotalScore(name_similarity, email_match, company_similarity)]

\* Variant: the emails compared as they are written.
EmailMatchExact(email, rowEmail) ==
    Truthy(email) /\ Truthy(rowEmail) /\ email = rowEmail

\* email and row['email'] and email.lower() == row['email'].lower()
EmailMatch(email, rowEmail) ==
    Truthy(email) /\ Truthy(rowEmail) /\ Lower(email) = Lower(rowEmail)

\* elif email and row['email']: scores['email_similarity'] = ...
EmailSimilarity(email, rowEmail, email_match) ==
    IF Truthy(email) /\ Truthy(rowEmail) /\ ~email_match
    THEN Present(calculate_similarity(email, rowEmail))
    ELSE Absent

\* if company and row['company']: scores['company_similarity'] = ...
CompanySimilarity(company, rowCompany) ==
    IF Truthy(company) /\ Truthy(rowCompany)
    THEN calculate_similarity(company, rowCompany)
    ELSE FracInt(0)

ScoreWithMatch(row, name, email, company, email_match) ==
    Scores(row, calculate_similarity(name, row.name), email_match,
           EmailSimilarity(email, row.email, email_match),
           CompanySimilarity(company, row.company))

\* find_potential_duplicates, the body of the loop over the rows: the scores
\* dict of one row against the candidate (name, email, company).
ScoreRow(row, name, email, company) ==
    ScoreWithMatch(row, name, email, company, EmailMatch(email, row.email))

\* Variant: a lower threshold.
AboveSeventy(scores) ==
    \/ FracGE(scores.total_score, FracInt(70))
    \/ scores.email_match

\* Variant: only an email match makes a duplicate.
EmailMatchOnly(scores) == scores.email_match

\* if scores['total_score'] >= DUPLICATE_SIMILARITY_THRESHOLD or scores['email_match']
AboveThreshold(scores) ==
    \/ FracGE(scores.total_score, FracInt(DUPLICATE_SIMILARITY_THRESHOLD))
    \/ scores.email_match

\* list.insert keeping total_score descending and, among equal scores, the
\* earlier element first (Python's sort is stable, also with reverse=True).
RECURSIVE InsertDesc(_, _)
InsertDesc(sorted, m) ==
    IF sorted = <<>> THEN <<m>>
    ELSE IF FracGE(Head(sorted).total_score, m.total_score)
         THEN <<Head(sorted)>> \o InsertDesc(Tail(sorted), m)
         ELSE <<m>> \o sorted

\* Variant: the matches left in row order.
RowOrder(duplicates) == duplicates

\* sorted(duplicates, key=lambda x: x['total_score'], reverse=True)
RECURSIVE SortByScoreDesc(_)
SortByScoreDesc(duplicates) ==
    IF duplicates = <<>> THEN <<>>
    ELSE InsertDesc(SortByScoreDesc(SubSeq(duplicates, 1, Len(duplicates) - 1)),
                    duplicates[Len(duplicates)])

\* The scores dict of every active row, in row order (the loop's iterations).
ScoreActive(active, name, email, company) ==
    [i \in 1..Len(active) |-> ScoreRow(active[i], name, email, company)]

\* Variant: every row scored, the soft-deleted ones too.
ScoreEvery(rows, name, email, company) == ScoreActive(rows, name, email, company)

\* SELECT * FROM clients WHERE is_active = 1 OR is_active IS NULL, each row scored.
ScoreAll(rows, name, email, company) ==
    ScoreActive(SelectSeq(rows, IsActive), name, email, company)

\* Database.find_potential_duplicates
find_potential_duplicates(rows, name, email, company) ==
    SortByScoreDesc(SelectSeq(ScoreAll(rows, name, email, company), AboveThreshold))

(***************************************************************************)
(* Record Store: clients (database.py)                                     *)
(***************************************************************************)

\* pydantic ClientCreate(name, company, email): the field constraints of
\* models.ClientBase.
ClientCreateValid(c) ==
    /\ Len(c.name) >= MinNameLen
    /\ Len(c.name) <= MaxFieldLen
    /\ (c.company = None \/ Len(c.company) <= MaxFieldLen)
    /\ (c.email = None \/ Len(c.email) <= MaxFieldLen)

\* Client(**dict(row)): the model keeps the declared fields of the row.
ClientOf(row) ==
    [id |-> row.id, name |-> row.name, company |-> row.company, email |-> row.email,
     created_at |-> row.created_at]

\* created_at TIMESTAMP DEFAULT CURRENT_TIMESTAMP: the time of the insert that
\* follows seq inserts, one tick of the clock an insert.
CurrentTimestamp(seq) == 1000 + seq

Returned(v) == [kind |-> "return", type |-> "", args |-> <<>>, value |-> v]

\* return True, as a value that compares with the models the other calls return.
PyTrue == [bool |-> TRUE]
Raised(t, a) == [kind |-> "raise", type |-> t, args |-> a, value |-> Absent]

\* No call has ended yet.
NoOutcome == Raised("", <<>>)

\* raise DuplicateClientError(f"Found {len(duplicates)} potential duplicate(s)", duplicates)
DuplicateClientError(duplicates) ==
    Raised("DuplicateClientError",
           <<"Found " \o ToString(Len(duplicates)) \o " potential duplicate(s)",
             duplicates>>)

\* Variant: the new row inserted without its company.
InsertWithoutCompany(rows, seq, client) ==
    Append(rows, [id |-> seq + 1, name |-> client.name, company |-> None,
                  email |-> client.email, created_at |-> CurrentTimestamp(seq),
                  is_active |-> 1])

\* INSERT INTO clients (name, company, email, is_active) VALUES (?, ?, ?, 1)
InsertClient(rows, seq, client) ==
    Append(rows, [id |-> seq + 1, name |-> client.name, company |-> client.company,
                  email |-> client.email, created_at |-> CurrentTimestamp(seq),
                  is_active |-> 1])

\* Variant: the row inserted whatever the duplicate check found.
CreateUnchecked(rows, seq, client, force, duplicates) ==
    [clients |-> InsertClient(rows, seq, client), clientSeq |-> seq + 1,
     out |-> Returned(Present(
                 [id |-> seq + 1, name |-> client.name,
                  company |-> client.company, email |-> client.email,
                  created_at |-> CurrentTimestamp(seq)]))]

\* create_client after the duplicate check found duplicates (none when forced).
CreateChecked(rows, seq, client, force, duplicates) ==
    IF ~force /\ duplicates # <<>>
    THEN [clients |-> rows, clientSeq |-> seq,
          out |-> DuplicateClientError(duplicates)]
    ELSE [clients |-> InsertClient(rows, seq, client), clientSeq |-> seq + 1,
          out |-> Returned(Present(
                      [id |-> seq + 1, name |-> client.name,
                       company |-> client.company, email |-> client.email,
                       created_at |-> CurrentTimestamp(seq)]))]

\* Database.create_client: the table, the sequence and the outcome of the call.
create_client(rows, seq, client, force) ==
    CreateChecked(rows, seq, client, force,
                  IF force THEN <<>>
                  ELSE find_potential_duplicates(rows, client.name, client.email,
                                                 client.company))

\* No ClientCreate: the client of a call that takes none.
NoClient == [name |-> "", company |-> None, email |-> None]

\* The concurrent callers of create_client.
Writers == {"a", "b"}

\* A caller outside create_client.
Idle == [pc |-> "idle", client |-> NoClient, checked_at |-> 0, out |-> NoOutcome]

\* Variant: the insert follows whatever the check found.
CheckSkipped(duplicates) == TRUE

\* if duplicates: raise DuplicateClientError(...)
CheckPassed(duplicates) == duplicates = <<>>

\* A writer after the duplicate check of create_client(client, force=False)
\* found duplicates on a table of seq inserts: it raises or goes on to the
\* insert.
Checked(client, seq, duplicates) ==
    IF CheckPassed(duplicates)
    THEN [pc |-> "checked", client |-> client, checked_at |-> seq, out |-> NoOutcome]
    ELSE [pc |-> "done", client |-> client, checked_at |-> seq,
          out |-> DuplicateClientError(duplicates)]

\* create_client(client, force=False) of writer w up to the end of the
\* duplicate check, which reads the table on a connection of its own.
CreateCheck(w, client) ==
    /\ writers[w].pc \in {"idle", "done"}
    /\ ClientCreateValid(client)
    /\ writers' = [writers EXCEPT ![w] =
                       Checked(client, clientSeq,
                               find_potential_duplicates(clients, client.name,
                                                         client.email, client.company))]
    /\ UNCHANGED <<dbVars, lastCall, sessionVars, st_error, crmVars, saveVars, valVars,
                   simVars, genVars, exVars>>

\* The rest of create_client of writer w: the INSERT on a second connection,
\* and the row returned.
CreateInsert(w) ==
    /\ writers[w].pc = "checked"
    /\ clientSeq < MaxClients
    /\ clients' = InsertClient(clients, clientSeq, writers[w].client)
    /\ clientSeq' = clientSeq + 1
    /\ writers' = [writers EXCEPT ![w].pc = "done",
                                  ![w].out = Returned(Present(
                                      ClientOf(InsertClient(clients, clientSeq,
                                                            writers[w].client)[Len(clients) + 1])))]
    /\ UNCHANGED <<lastCall, sessionVars, st_error, crmVars, saveVars, valVars,
                   simVars, genVars, exVars>>

\* Database.get_client: the active row with this id, if any.
get_client(rows, id) ==
    LET hit == SelectSeq(rows, LAMBDA r : r.id = id /\ IsActive(r))
    IN  IF hit = <<>> THEN Absent ELSE Present(ClientOf(hit[1]))

\* UPDATE clients SET is_active = flag WHERE id = ?
SetActive(rows, id, flag) ==
    [i \in 1..Len(rows) |->
        IF rows[i].id = id THEN [rows[i] EXCEPT !.is_active = flag] ELSE rows[i]]

\* Database.delete_client
delete_client(rows, id, soft_delete) ==
    IF soft_delete THEN SetActive(rows, id, 0)
    ELSE SelectSeq(rows, LAMBDA r : r.id # id)

\* Variant: a restore that writes nothing.
RestoreNothing(rows, id) == rows

\* Database.restore_client
restore_client(rows, id) == SetActive(rows, id, 1)

\* The record of a Record Store call: its arguments (flag is force for
\* create_client and soft_delete for delete_client), the table before it, its
\* outcome and, for the duplicate scan, the scores dict of every row scanned.
Call(op, client, flag, id, before, out, scored) ==
    [op |-> op, client |-> client, flag |-> flag, id |-> id,
     before |-> before, out |-> out, scored |-> scored]

(***************************************************************************)
(* Calls of the Record Store interface                                     *)
(***************************************************************************)

\* The store after a create_client call with result r.
Created(client, force, r) ==
    /\ r.out.kind = "return" => clientSeq < MaxClients
    /\ clients' = r.clients
    /\ clientSeq' = r.clientSeq
    /\ lastCall' = Call("create_client", client, force, 0, clients, r.out, <<>>)

\* db.create_client(client, force)
CallCreateClient(client, force) ==
    /\ ClientCreateValid(client)
    /\ Created(client, force, create_client(clients, clientSeq, client, force))
    /\ UNCHANGED <<sessionVars, st_error, exVars, genVars, simVars, valVars, saveVars, crmVars, writers>>

\* The record of a find_potential_duplicates call that scanned `scored`.
Scanned(client, scored) ==
    lastCall' = Call("find_potential_duplicates", client, FALSE, 0, clients,
                     Returned(SortByScoreDesc(SelectSeq(scored, AboveThreshold))),
                     scored)

\* db.find_potential_duplicates(name, email, company)
CallFindPotentialDuplicates(client) ==
    /\ Scanned(client, ScoreAll(clients, client.name, client.email, client.company))
    /\ UNCHANGED <<dbVars, sessionVars, st_error, exVars, genVars, simVars, valVars, saveVars, crmVars, writers>>

\* db.delete_client(id, soft_delete)
CallDeleteClient(id, soft_delete) ==
    /\ \E i \in 1..Len(clients) : clients[i].id = id
    /\ clients' = delete_client(clients, id, soft_delete)
    /\ lastCall' = Call("delete_client", NoClient, soft_delete, id, clients,
                        Returned(Present(PyTrue)), <<>>)
    /\ UNCHANGED <<clientSeq, sessionVars, st_error, exVars, genVars, simVars, valVars, saveVars, crmVars, writers>>

\* db.restore_client(id)
CallRestoreClient(id) ==
    /\ \E i \in 1..Len(clients) : clients[i].id = id /\ ~IsActive(clients[i])
    /\ clients' = restore_client(clients, id)
    /\ lastCall' = Call("restore_client", NoClient, FALSE, id, clients,
                        Returned(Present(PyTrue)), <<>>)
    /\ UNCHANGED <<clientSeq, sessionVars, st_error, exVars, genVars, simVars, valVars, saveVars, crmVars, writers>>

(***************************************************************************)
(* Presentation layer: the new-client flow of page_add_interaction         *)
(***************************************************************************)

\* client_created: 'new_client_id' is in the session and db.get_client finds it.
client_created ==
    /\ new_client_id # Absent
    /\ get_client(clients, new_client_id[1]) # Absent

\* The creation form is rendered: no duplicate warning and no client created yet.
FormShown == duplicate_data = Absent /\ ~client_created

\* if duplicates: the pending client and the matches go to the session.
ShowDuplicates(form, duplicates) ==
    IF duplicates # <<>>
    THEN /\ pending_client' = Present(form)
         /\ duplicate_data' = Present(duplicates)
    ELSE UNCHANGED <<pending_client, duplicate_data, writers>>

\* "Check Duplicates": if check_dup and name
ClickCheckDuplicates(form) ==
    /\ FormShown
    /\ form.name # ""
    /\ Scanned(form, ScoreAll(clients, form.name, form.email, form.company))
    /\ ShowDuplicates(form, lastCall'.out.value)
    /\ st_error' = Absent
    /\ UNCHANGED <<dbVars, new_client_id, client_id, exVars, genVars, simVars, valVars, saveVars, crmVars, writers>>

\* The session after create_client(ClientCreate(...)) ended with r.out.
Submitted(form, r) ==
    IF r.out.kind = "return"
    THEN /\ new_client_id' = Present(r.out.value[1].id)
         /\ client_id' = Present(r.out.value[1].id)
         /\ UNCHANGED <<pending_client, duplicate_data, writers>>
    ELSE \* except DuplicateClientError as e
         /\ pending_client' = Present(form)
         /\ duplicate_data' = Present(r.out.args[2])
         /\ UNCHANGED <<new_client_id, client_id, writers>>

SubmitCreate(form, r) ==
    /\ Created(form, FALSE, r)
    /\ Submitted(form, r)
    /\ st_error' = Absent

\* except Exception as e: st.error(f"Error: {str(e)}"), ClientCreate having raised
ShowError ==
    /\ st_error' = Present("Error: ValidationError")
    /\ UNCHANGED <<dbVars, lastCall, sessionVars, writers>>

\* "Create Client": if submit and name
ClickCreateClient(form) ==
    /\ FormShown
    /\ form.name # ""
    /\ IF ~ClientCreateValid(form)
       THEN ShowError
       ELSE SubmitCreate(form, create_client(clients, clientSeq, form, FALSE))
    /\ UNCHANGED <<exVars, genVars, simVars, valVars, saveVars, crmVars, writers>>

\* on_continue after create_client(ClientCreate(**pending), force=True) gave r.
Continued(pending, r) ==
    /\ Created(pending, TRUE, r)
    /\ new_client_id' = Present(r.out.value[1].id)
    /\ client_id' = Present(r.out.value[1].id)
    /\ duplicate_data' = Absent
    /\ pending_client' = Absent
    /\ st_error' = Absent

ContinueWith(pending) ==
    IF ~ClientCreateValid(pending)
    THEN ShowError
    ELSE Continued(pending, create_client(clients, clientSeq, pending, TRUE))

\* "Create Anyway" of the duplicate warning
on_continue ==
    /\ duplicate_data # Absent
    /\ ContinueWith(pending_client[1])
    /\ UNCHANGED <<exVars, genVars, simVars, valVars, saveVars, crmVars, writers>>

\* "Cancel" of the duplicate warning
on_cancel ==
    /\ duplicate_data # Absent
    /\ duplicate_data' = Absent
    /\ pending_client' = Absent
    /\ st_error' = Absent
    /\ UNCHANGED <<dbVars, lastCall, new_client_id, client_id, exVars, genVars, simVars, valVars, saveVars, crmVars, writers>>

\* "Clear": every key of the page is popped from the session.
ClickClear ==
    /\ pending_client' = Absent
    /\ duplicate_data' = Absent
    /\ new_client_id' = Absent
    /\ client_id' = Absent
    /\ st_error' = Absent
    /\ crm_data' = Absent
    /\ ss_conversation' = ""
    /\ ss_followups' = Absent
    /\ ss_saved' = <<>>
    /\ UNCHANGED <<dbVars, lastCall, exVars, genVars, simVars, valVars, crmVars, writers>>

\* Clients page, "Yes, Delete" on a listed (active) client.
ClickConfirmDelete(id) ==
    /\ \E i \in 1..Len(clients) : clients[i].id = id /\ IsActive(clients[i])
    /\ clients' = delete_client(clients, id, TRUE)
    /\ lastCall' = Call("delete_client", NoClient, TRUE, id, clients,
                        Returned(Present(PyTrue)), <<>>)
    /\ st_error' = Absent
    /\ UNCHANGED <<clientSeq, sessionVars, exVars, genVars, simVars, valVars, saveVars, crmVars, writers>>

(***************************************************************************)
(* Text helpers for the validator                                          *)
(***************************************************************************)

Smallest(S) == CHOOSE n \in S : \A o \in S : n <= o
Largest(S) == CHOOSE n \in S : \A o \in S : n >= o

\* The positions (1-based) where pat occurs in s at or after position from.
Occurrences(s, pat, from) ==
    { i \in from..(Len(s) - Len(pat) + 1) : Slice(s, i, i + Len(pat) - 1) = pat }

\* str.find from a position: the first occurrence, 0 when there is none.
FirstIndex(s, pat, from) ==
    IF Occurrences(s, pat, from) = {} THEN 0 ELSE Smallest(Occurrences(s, pat, from))

Whitespace == {" ", "\n", "\t", "\r"}

Inked(s) == { i \in 1..Len(s) : Char(s, i) \notin Whitespace }

\* str.strip()
Strip(s) == IF Inked(s) = {} THEN "" ELSE Slice(s, Smallest(Inked(s)), Largest(Inked(s)))

\* A backquote cannot be written in a TLA+ string: the texts of the model
\* write the Markdown fence of three backquotes as ~~~.
\* text.split(sep)[1].split(fence)[0], given the position of the first sep:
\* what follows sep, up to the next fence if there is one.
FencedAt(text, start) ==
    IF FirstIndex(text, "~~~", start) = 0 THEN Slice(text, start, Len(text))
    ELSE Slice(text, start, FirstIndex(text, "~~~", start) - 1)

FencedBlock(raw, sep) == FencedAt(raw, FirstIndex(raw, sep, 1) + Len(sep))

\* Remove markdown code blocks: a block fenced as json, else any fenced block.
StripFence(raw) ==
    IF FirstIndex(raw, "~~~json", 1) # 0 THEN FencedBlock(raw, "~~~json")
    ELSE IF FirstIndex(raw, "~~~", 1) # 0 THEN FencedBlock(raw, "~~~")
    ELSE raw

\* re.search(r'\{.*\}', raw, re.DOTALL): from the first { to the last } after it.
BraceSpan(raw, open) ==
    IF open = 0 \/ Occurrences(raw, "}", open + 1) = {} THEN Strip(raw)
    ELSE Slice(raw, open, Largest(Occurrences(raw, "}", open + 1)))

FindObject(raw) == BraceSpan(raw, FirstIndex(raw, "{", 1))

\* CRMExtractor._clean_json_response
clean_json_response(raw) == FindObject(StripFence(raw))

(***************************************************************************)
(* json.loads, for flat objects whose values are strings without escapes   *)
(* or null; any other text is reported as a JSONDecodeError.               *)
(***************************************************************************)

NoDict == [ok |-> FALSE, dict |-> <<>>]

\* The first position at or after i that holds no whitespace (Len(s) + 1 if none).
SkipWs(s, i) ==
    IF { j \in i..Len(s) : Char(s, j) \notin Whitespace } = {} THEN Len(s) + 1
    ELSE Smallest({ j \in i..Len(s) : Char(s, j) \notin Whitespace })

\* A string literal opening at position i and closing at position close.
StringToken(s, i, close) ==
    IF close = 0
       \/ \E j \in (i + 1)..(close - 1) : Char(s, j) \in {"\\", "\n", "\t", "\r"}
    THEN [ok |-> FALSE, val |-> "", next |-> 0]
    ELSE [ok |-> TRUE, val |-> Slice(s, i + 1, close - 1), next |-> close + 1]

\* The value at position i: a string literal or null.
ValueToken(s, i) ==
    IF Char(s, i) = "\"" THEN StringToken(s, i, FirstIndex(s, "\"", i + 1))
    ELSE IF Slice(s, i, i + 3) = "null" THEN [ok |-> TRUE, val |-> None, next |-> i + 4]
    ELSE [ok |-> FALSE, val |-> "", next |-> 0]

Put(dict, key, val) ==
    [k \in DOMAIN dict \cup {key} |-> IF k = key THEN val ELSE dict[k]]

RECURSIVE Members(_, _, _)
RECURSIVE AfterKey(_, _, _)
RECURSIVE AfterValue(_, _, _, _)

\* After a member: a comma and the next member, or the closing brace and
\* nothing but whitespace behind it.
AfterValue(s, dict, key, v) ==
    IF ~v.ok THEN NoDict
    ELSE IF Char(s, SkipWs(s, v.next)) = ","
         THEN Members(s, SkipWs(s, SkipWs(s, v.next) + 1), Put(dict, key.val, v.val))
    ELSE IF Char(s, SkipWs(s, v.next)) = "}" /\ SkipWs(s, SkipWs(s, v.next) + 1) > Len(s)
         THEN [ok |-> TRUE, dict |-> Put(dict, key.val, v.val)]
    ELSE NoDict

\* After the key: a colon and the value.
AfterKey(s, dict, key) ==
    IF ~key.ok \/ Char(s, SkipWs(s, key.next)) # ":" THEN NoDict
    ELSE AfterValue(s, dict, key, ValueToken(s, SkipWs(s, SkipWs(s, key.next) + 1)))

\* A member "key": value starting at position i.
Members(s, i, dict) ==
    IF Char(s, i) # "\"" THEN NoDict
    ELSE AfterKey(s, dict, StringToken(s, i, FirstIndex(s, "\"", i + 1)))

ObjectAt(s, i) ==
    IF Char(s, i) # "{" THEN NoDict
    ELSE IF Char(s, SkipWs(s, i + 1)) = "}" /\ SkipWs(s, SkipWs(s, i + 1) + 1) > Len(s)
         THEN [ok |-> TRUE, dict |-> <<>>]
    ELSE Members(s, SkipWs(s, i + 1), <<>>)

\* json.loads(json_str)
json_loads(json_str) == ObjectAt(json_str, SkipWs(json_str, 1))

(***************************************************************************)
(* Structured-output validator (models.py)                                 *)
(***************************************************************************)

\* models.DealStage
DealStage ==
    {"prospecting", "qualification", "proposal", "negotiation", "closed_won",
     "closed_lost", "nurture"}

\* models.InterestLevel
InterestLevel == {"hot", "warm", "cold", "neutral"}

\* Field(..., min_length=10) of summary and Field(..., min_length=5) of next_action
MinSummaryLen == 10
MinNextActionLen == 5

Digits == {"0", "1", "2", "3", "4", "5", "6", "7", "8", "9"}

DigitValue(c) ==
    CASE c = "0" -> 0 [] c = "1" -> 1 [] c = "2" -> 2 [] c = "3" -> 3 [] c = "4" -> 4
      [] c = "5" -> 5 [] c = "6" -> 6 [] c = "7" -> 7 [] c = "8" -> 8 [] OTHER -> 9

AllDigits(s) == Len(s) > 0 /\ \A i \in 1..Len(s) : Char(s, i) \in Digits

RECURSIVE Number(_)
Number(s) ==
    IF Len(s) = 0 THEN 0
    ELSE Number(Slice(s, 1, Len(s) - 1)) * 10 + DigitValue(Char(s, Len(s)))

IsLeap(y) == (y % 4 = 0 /\ y % 100 # 0) \/ y % 400 = 0

DaysIn(y, m) ==
    IF m = 2 THEN (IF IsLeap(y) THEN 29 ELSE 28)
    ELSE IF m \in {4, 6, 9, 11} THEN 30 ELSE 31

\* The fields %Y, %m and %d of strptime: four digits; one or two digits, 1..12;
\* one or two digits (or a space and a digit), 1..31; and a day of that month.
DateFields(y, m, d) ==
    /\ Len(y) = 4 /\ AllDigits(y) /\ Number(y) >= 1
    /\ Len(m) \in {1, 2} /\ AllDigits(m) /\ Number(m) \in 1..12
    /\ \/ Len(d) \in {1, 2} /\ AllDigits(d)
       \/ Len(d) = 2 /\ Char(d, 1) = " " /\ Char(d, 2) \in Digits
    /\ Number(Strip(d)) >= 1
    /\ Number(Strip(d)) <= DaysIn(Number(y), Number(m))

DateSplit(v, dash1, dash2) ==
    /\ dash1 # 0
    /\ dash2 # 0
    /\ DateFields(Slice(v, 1, dash1 - 1), Slice(v, dash1 + 1, dash2 - 1),
                  Slice(v, dash2 + 1, Len(v)))

FirstDashAfter(v, dash1) == IF dash1 = 0 THEN 0 ELSE FirstIndex(v, "-", dash1 + 1)

DateAt(v, dash1) == DateSplit(v, dash1, FirstDashAfter(v, dash1))

\* datetime.strptime(v, "%Y-%m-%d") succeeds
ParsesAsDate(v) == DateAt(v, FirstIndex(v, "-", 1))

\* CRMData.validate_date_format
validate_date_format(v) == v = None \/ ParsesAsDate(v)

\* Variant: the value is compared as it is and returned stripped.
CleanStripped(v) ==
    IF Truthy(v) /\ Lower(v) \in {"none", "n/a", "no objections", ""}
    THEN None
    ELSE IF v = None THEN None ELSE Strip(v)

\* CRMData.clean_objections
clean_objections(v) ==
    IF Truthy(v) /\ Lower(Strip(v)) \in {"none", "n/a", "no objections", ""}
    THEN None
    ELSE v

\* The value of a key of the parsed object; None when the key is missing or null.
Field(data, key) == IF key \in DOMAIN data THEN data[key] ELSE None

Required(data, key) == Field(data, key) # None

\* Variant: deal_stage and interest_level take any value.
FieldErrorsOpenSets(data) ==
    (IF Required(data, "summary") /\ Len(Field(data, "summary")) >= MinSummaryLen
     THEN <<>> ELSE <<"summary">>)
    \o (IF Required(data, "next_action")
           /\ Len(Field(data, "next_action")) >= MinNextActionLen
        THEN <<>> ELSE <<"next_action">>)
    \o (IF validate_date_format(Field(data, "followup_date"))
        THEN <<>> ELSE <<"followup_date">>)

\* The fields of CRMData that fail validation, in the order of declaration.
FieldErrors(data) ==
    (IF Required(data, "summary") /\ Len(Field(data, "summary")) >= MinSummaryLen
     THEN <<>> ELSE <<"summary">>)
    \o (IF Field(data, "deal_stage") \in DealStage THEN <<>> ELSE <<"deal_stage">>)
    \o (IF Field(data, "interest_level") \in InterestLevel
        THEN <<>> ELSE <<"interest_level">>)
    \o (IF Required(data, "next_action")
           /\ Len(Field(data, "next_action")) >= MinNextActionLen
        THEN <<>> ELSE <<"next_action">>)
    \o (IF validate_date_format(Field(data, "followup_date"))
        THEN <<>> ELSE <<"followup_date">>)

\* CRMData(**data), when no field fails.
CRMData(data) ==
    [summary |-> Field(data, "summary"),
     deal_stage |-> Field(data, "deal_stage"),
     objections |-> clean_objections(Field(data, "objections")),
     interest_level |-> Field(data, "interest_level"),
     next_action |-> Field(data, "next_action"),
     followup_date |-> Field(data, "followup_date")]

RECURSIVE JoinFields(_)
JoinFields(fields) ==
    IF fields = <<>> THEN ""
    ELSE " " \o Head(fields) \o JoinFields(Tail(fields))

\* raise ValueError(f"Schema validation failed: {str(e)}"): the message names
\* the failing fields.
Validated(data, errors) ==
    IF errors = <<>> THEN Returned(Present(CRMData(data)))
    ELSE Raised("ValueError", <<"Schema validation failed:" \o JoinFields(errors)>>)

\* raise ValueError(f"Invalid JSON from AI: {str(e)}")
Parsed(loaded) ==
    IF ~loaded.ok THEN Raised("ValueError", <<"Invalid JSON from AI">>)
    ELSE Validated(loaded.dict, FieldErrors(loaded.dict))

\* models.validate_json_output
validate_json_output(json_str) == Parsed(json_loads(json_str))

(***************************************************************************)
(* Calls of the validator                                                  *)
(***************************************************************************)

\* The objects the validator is given as JSON text.  A field is Absent when the
\* object has no such key, Present(None) for null, else Present of its text.
ValidatorObjects ==
    [summary : {"Sarah asked for the proposal", "Too short"},
     deal_stage : {Present("proposal"), Present("maybe"), Present("Proposal"), Absent},
     interest_level : {Present("hot"), Present("lukewarm"), Present(None)},
     objections : {Absent, Present(None), Present("none"), Present("N/A"),
                   Present("No Objections"), Present(""), Present(" none "),
                   Present("price is high")},
     next_action : {Present("Send proposal")},
     followup_date : {Absent}]
    \cup
    [summary : {"Sarah asked for the proposal"},
     deal_stage : {Present("proposal")},
     interest_level : {Present("hot")},
     objections : {Absent, Present("none")},
     next_action : {Present("Send proposal"), Present("Call"), Absent},
     followup_date : {Absent, Present(None), Present("2025-03-10"),
                      Present("03/10/2025"), Present("2025-02-30"),
                      Present("2025-3-5")}]

\* , "key": "text"    or    , "key": null    or nothing
Member(key, field) ==
    IF field = Absent THEN ""
    ELSE ", \"" \o key \o "\": "
         \o (IF field[1] = None THEN "null" ELSE "\"" \o field[1] \o "\"")

\* The JSON text of an object.
JsonText(o) ==
    "{\"summary\": \"" \o o.summary \o "\""
    \o Member("deal_stage", o.deal_stage)
    \o Member("objections", o.objections)
    \o Member("interest_level", o.interest_level)
    \o Member("next_action", o.next_action)
    \o Member("followup_date", o.followup_date)
    \o "}"

\* The texts the validator is called with.
ValidatorInputs == { JsonText(o) : o \in ValidatorObjects }

\* self._calculate_similarity(str1, str2) and self._calculate_similarity(str2, str1),
\* called on their own with the texts drawn.
CallSimilarity ==
    /\ sim_input # <<>>
    /\ sim_result = <<>>
    /\ sim_result' = <<calculate_similarity(sim_input[1], sim_input[2]),
                       calculate_similarity(sim_input[2], sim_input[1])>>
    /\ UNCHANGED <<dbVars, lastCall, sessionVars, st_error, crmVars, saveVars, exVars, genVars,
                   valVars, sim_input, writers>>

\* validate_json_output(json_str), called on its own with the text drawn.
CallValidate ==
    /\ val_input # ""
    /\ val_outcome = NoOutcome
    /\ val_outcome' = validate_json_output(val_input)
    /\ UNCHANGED <<dbVars, lastCall, sessionVars, st_error, crmVars, saveVars, exVars, genVars, simVars,
                   val_input, writers>>

(***************************************************************************)
(* Extraction pipeline (ai_crm.py)                                         *)
(***************************************************************************)

\* LLM_CONFIG["provider"]: "ollama", "transformers" or "llama_cpp"
Providers == {"ollama", "transformers", "llama_cpp"}

\* What the call of a provider raises: _call_ollama raises TimeoutError or
\* RuntimeError, _call_transformers and _call_llama_cpp ImportError or RuntimeError.
ProviderErrors(p) ==
    IF p = "ollama" THEN {"TimeoutError", "RuntimeError"}
    ELSE {"ImportError", "RuntimeError"}

Conversations ==
    {"Me: Hi Sarah. Sarah: send me the proposal.", "Me: Any news? Bob: not now."}

Contexts == {"New client", "Client: Sarah (Acme)"}

\* Texts the generation capability may answer with.
GenOutputs ==
    { "{\"summary\": \"Sarah asked for the proposal\", \"deal_stage\": \"proposal\", \"objections\": \"price is high\", \"interest_level\": \"hot\", \"next_action\": \"Send proposal\", \"followup_date\": null}",
      "Here is the data:\n~~~json\n{\"summary\": \"Discussed pricing options in detail\", \"deal_stage\": \"proposal\", \"objections\": \"none\", \"interest_level\": \"warm\", \"next_action\": \"Send proposal Friday\", \"followup_date\": \"2025-03-10\"}\n~~~",
      "I cannot help with that.",
      "{\"summary\": \"Bob is not ready yet\", \"deal_stage\": \"maybe\", \"interest_level\": \"cold\", \"next_action\": \"Call again\"}",
      "{\"summary\": \"Bob is not ready yet\", \"deal_stage\": \"nurture\", \"interest_level\": \"cold\", \"next_action\": \"Call again\", \"followup_date\": \"03/10/2025\"}" }

\* Prompts.get_crm_prompt: CRM_EXTRACTION.format(conversation, context), the
\* template shortened to its frame.
get_crm_prompt(conversation, context) ==
    "CONVERSATION:\n" \o conversation \o "\n\nCLIENT CONTEXT:\n" \o context
    \o "\n\nExtract the following fields and return ONLY a valid JSON object"

\* retry_prompt = prompt + "\n\nCRITICAL: Return ONLY valid JSON. No other text."
retry_prompt(p) == p \o "\n\nCRITICAL: Return ONLY valid JSON. No other text."

Reply(text) == [ok |-> TRUE, text |-> text, error |-> ""]
Failure(error) == [ok |-> FALSE, text |-> "", error |-> error]

\* extract_crm_data: a CRMExtractor is built, which reads the provider from
\* LLM_CONFIG, and extract is called: the prompt is built and the first
\* generation call is made.
ExtractBegin(conversation, context, configured) ==
    /\ ex_pc \in {"idle", "done"}
    /\ provider' = configured
    /\ prompt' = get_crm_prompt(conversation, context)
    /\ replies' = <<>>
    /\ raw_output' = ""
    /\ IF configured \in Providers
       THEN /\ sent' = <<get_crm_prompt(conversation, context)>>
            /\ extracted' = NoOutcome
            /\ ex_pc' = "first"
       ELSE /\ sent' = <<>>
            /\ extracted' = Raised("ValueError", <<"Unknown provider: " \o configured>>)
            /\ ex_pc' = "done"
    /\ UNCHANGED storeVars

\* A generation call raises: the error leaves extract.
CallRaises(error) ==
    /\ replies' = Append(replies, Failure(error))
    /\ extracted' = Raised(error, <<error>>)
    /\ ex_pc' = "done"
    /\ UNCHANGED <<provider, prompt, sent, raw_output, storeVars>>

\* Variant: a provider error of the first call handled like a validation
\* failure, by the retry call.
ExtractFirstFailsRetried(error) ==
    /\ ex_pc = "first"
    /\ error \in ProviderErrors(provider)
    /\ replies' = Append(replies, Failure(error))
    /\ sent' = Append(sent, retry_prompt(prompt))
    /\ ex_pc' = "retry"
    /\ UNCHANGED <<provider, prompt, raw_output, extracted, storeVars>>

\* The first generation call raises a provider error.
ExtractFirstFails(error) ==
    /\ ex_pc = "first"
    /\ error \in ProviderErrors(provider)
    /\ CallRaises(error)

\* After the first output: return validate_json_output(cleaned), or on
\* ValueError make the retry call with the stricter prompt.
FirstValidated(text, v) ==
    /\ replies' = Append(replies, Reply(text))
    /\ raw_output' = text
    /\ IF v.kind = "return"
       THEN /\ extracted' = v
            /\ ex_pc' = "done"
            /\ UNCHANGED sent
       ELSE /\ sent' = Append(sent, retry_prompt(prompt))
            /\ ex_pc' = "retry"
            /\ UNCHANGED extracted
    /\ UNCHANGED <<provider, prompt, storeVars>>

\* Variant: the outcome of validating the first output is final, no retry call.
FirstFinal(text, v) ==
    /\ replies' = Append(replies, Reply(text))
    /\ raw_output' = text
    /\ extracted' = v
    /\ ex_pc' = "done"
    /\ UNCHANGED <<provider, prompt, sent, storeVars>>

ExtractFirstReturnsOnce(text) ==
    /\ ex_pc = "first"
    /\ FirstFinal(text, validate_json_output(clean_json_response(text)))

\* The first generation call returns text.
ExtractFirstReturns(text) ==
    /\ ex_pc = "first"
    /\ FirstValidated(text, validate_json_output(clean_json_response(text)))

\* The retry call raises a provider error.
ExtractRetryFails(error) ==
    /\ ex_pc = "retry"
    /\ error \in ProviderErrors(provider)
    /\ CallRaises(error)

\* Variant: a record of default values returned when the retry output fails
\* validation too.
RetryOrDefault(text, v) ==
    /\ replies' = Append(replies, Reply(text))
    /\ raw_output' = text
    /\ extracted' = IF v.kind = "return" THEN v
                    ELSE Returned(Present(
                             [summary |-> "No summary available", deal_stage |-> "prospecting",
                              objections |-> None, interest_level |-> "cold",
                              next_action |-> "Review conversation",
                              followup_date |-> None]))
    /\ ex_pc' = "done"
    /\ UNCHANGED <<provider, prompt, sent, storeVars>>

\* After the retry output: return validate_json_output(cleaned); its ValueError
\* propagates.
RetryValidated(text, v) ==
    /\ replies' = Append(replies, Reply(text))
    /\ raw_output' = text
    /\ extracted' = v
    /\ ex_pc' = "done"
    /\ UNCHANGED <<provider, prompt, sent, storeVars>>

\* The retry call returns text.
ExtractRetryReturns(text) ==
    /\ ex_pc = "retry"
    /\ RetryValidated(text, validate_json_output(clean_json_response(text)))

(***************************************************************************)
(* Record Store: listings (database.py)                                    *)
(***************************************************************************)

\* The characters of the texts stored here, in the order of their codes
\* (SQLite compares TEXT byte by byte under the BINARY collation).
CodeOrder == " .@ABCDEFGHIJKLMNOPQRSTUVWXYZabcdefghijklmnopqrstuvwxyz"

CodeOf(c) == Smallest({ i \in 1..Len(CodeOrder) : Char(CodeOrder, i) = c } \cup {Len(CodeOrder) + 1})

\* a < b for TEXT values under the BINARY collation.
RECURSIVE TextLess(_, _)
TextLess(a, b) ==
    IF b = "" THEN FALSE
    ELSE IF a = "" THEN TRUE
    ELSE IF Char(a, 1) = Char(b, 1)
         THEN TextLess(Slice(a, 2, Len(a)), Slice(b, 2, Len(b)))
         ELSE CodeOf(Char(a, 1)) < CodeOf(Char(b, 1))

Reverse(seq) == [i \in 1..Len(seq) |-> seq[Len(seq) + 1 - i]]

\* [Client(**dict(row)) for row in rows]
ClientsOf(rows) == [i \in 1..Len(rows) |-> ClientOf(rows[i])]

\* Database.get_all_clients: ORDER BY created_at DESC, the later insert first.
get_all_clients(rows, include_inactive) ==
    Reverse(ClientsOf(SelectSeq(rows, LAMBDA r : include_inactive \/ IsActive(r))))

\* Clients page, tab "Deleted Clients":
\* [c for c in all_clients if hasattr(c, 'is_active') and c.is_active == 0]
\* over get_all_clients(include_inactive=True).
deleted_clients(rows) ==
    SelectSeq(get_all_clients(rows, TRUE),
              LAMBDA c : "is_active" \in DOMAIN c /\ c.is_active = 0)

\* value LIKE '%query%': NULL matches nothing, ASCII letters match in either case.
Like(value, query) ==
    /\ value # None
    /\ Occurrences(Lower(value), Lower(query), 1) # {}

\* ORDER BY name, rows of the same name in rowid order.
RECURSIVE InsertByName(_, _)
InsertByName(sorted, c) ==
    IF sorted = <<>> THEN <<c>>
    ELSE IF TextLess(c.name, Head(sorted).name)
         THEN <<c>> \o sorted
         ELSE <<Head(sorted)>> \o InsertByName(Tail(sorted), c)

RECURSIVE SortByName(_)
SortByName(found) ==
    IF found = <<>> THEN <<>>
    ELSE InsertByName(SortByName(SubSeq(found, 1, Len(found) - 1)), found[Len(found)])

\* Database.search_clients
search_clients(rows, query, include_inactive) ==
    SortByName(ClientsOf(SelectSeq(rows, LAMBDA r :
                             /\ include_inactive \/ IsActive(r)
                             /\ Like(r.name, query) \/ Like(r.company, query))))

(***************************************************************************)
(* Record Store: interactions and follow-ups (database.py)                 *)
(***************************************************************************)

MaxInteractions == 2
MaxFollowups == 2

\* What create_interaction is given besides the client id: the fields of an
\* InteractionCreate.
Deals ==
    { [raw_text |-> "Me: Hi Sarah. Sarah: send me the proposal.",
       summary |-> "Sarah asked for the proposal", deal_stage |-> "proposal",
       objections |-> "price is high", interest_level |-> "hot",
       next_action |-> "Send proposal", followup_date |-> None],
      [raw_text |-> "Me: Any news? Bob: not now.",
       summary |-> "Bob is not ready yet", deal_stage |-> "nurture",
       objections |-> None, interest_level |-> "cold",
       next_action |-> "Call again", followup_date |-> "2025-03-10"] }

EmailText == "Hi, the proposal we spoke about is attached."
MessageText == "Proposal sent, talk soon"

\* Clients given to create_client where interactions and follow-ups are stored too.
RecordCandidates == { [name |-> "Jon", company |-> "Acme", email |-> "j@x"] }

\* Clients given to create_client where deals are saved and closed.
DealCandidates ==
    { [name |-> "Jon", company |-> "Acme", email |-> "j@x"],
      [name |-> "Sarah", company |-> "Initech", email |-> "s@y"] }

\* The fields given to create_interaction there.
RecordDeals == { d \in Deals : d.deal_stage = "proposal" }

\* Variant: the row written over the latest row of the client, when it has one.
OverwriteLatest(rows, seq, client, deal) ==
    IF \E i \in 1..Len(rows) : rows[i].client_id = client
    THEN LET last == CHOOSE i \in 1..Len(rows) :
                         /\ rows[i].client_id = client
                         /\ \A j \in (i + 1)..Len(rows) : rows[j].client_id # client
         IN  [rows EXCEPT ![last] =
                 [id |-> rows[last].id, client_id |-> client, date |-> rows[last].date,
                  raw_text |-> deal.raw_text, summary |-> deal.summary,
                  deal_stage |-> deal.deal_stage, objections |-> deal.objections,
                  interest_level |-> deal.interest_level,
                  next_action |-> deal.next_action,
                  followup_date |-> deal.followup_date]]
    ELSE Append(rows, [id |-> seq + 1, client_id |-> client,
                       date |-> CurrentTimestamp(seq),
                       raw_text |-> deal.raw_text, summary |-> deal.summary,
                       deal_stage |-> deal.deal_stage, objections |-> deal.objections,
                       interest_level |-> deal.interest_level,
                       next_action |-> deal.next_action,
                       followup_date |-> deal.followup_date])

\* INSERT INTO interactions (client_id, raw_text, ...) VALUES (...): no foreign
\* key is checked, the connection never sets PRAGMA foreign_keys.
create_interaction(rows, seq, client, deal) ==
    Append(rows, [id |-> seq + 1, client_id |-> client, date |-> CurrentTimestamp(seq),
                  raw_text |-> deal.raw_text, summary |-> deal.summary,
                  deal_stage |-> deal.deal_stage, objections |-> deal.objections,
                  interest_level |-> deal.interest_level,
                  next_action |-> deal.next_action,
                  followup_date |-> deal.followup_date])

\* INSERT INTO followups (interaction_id, email_text, message_text) VALUES (?, ?, ?)
create_followup(rows, seq, interaction_id, email, message) ==
    Append(rows, [id |-> seq + 1, interaction_id |-> interaction_id,
                  email_text |-> email, message_text |-> message])

\* Database.get_followup: fetchone of the rows of the interaction.
get_followup(rows, interaction_id) ==
    LET hit == SelectSeq(rows, LAMBDA f : f.interaction_id = interaction_id)
    IN  IF hit = <<>> THEN Absent ELSE Present(hit[1])

\* Database.get_client_interactions: ORDER BY date DESC
get_client_interactions(rows, client) ==
    Reverse(SelectSeq(rows, LAMBDA i : i.client_id = client))

\* Variant: the join without the WHERE on the active flag.
JoinedAnyway(inter, rows, include_inactive) ==
    SelectSeq(inter, LAMBDA i : \E c \in Range(rows) : c.id = i.client_id)

\* FROM interactions i JOIN clients c ON i.client_id = c.id, with the WHERE on
\* the active flag of c unless include_inactive: the interactions joined.
Joined(inter, rows, include_inactive) ==
    SelectSeq(inter, LAMBDA i :
        \E c \in Range(rows) : c.id = i.client_id /\ (include_inactive \/ IsActive(c)))

\* Database.get_pipeline_stats: {deal_stage: count} of the stages that occur.
get_pipeline_stats(inter, rows, include_inactive) ==
    LET joined == Range(Joined(inter, rows, include_inactive))
    IN  [st \in { i.deal_stage : i \in joined } |->
            Cardinality({ i \in joined : i.deal_stage = st })]

\* Database.get_recent_interactions: ORDER BY i.date DESC LIMIT ?, each
\* interaction with the id, name and company of its client.
get_recent_interactions(inter, rows, limit) ==
    LET recent == Reverse(Joined(inter, rows, FALSE))
    IN  [k \in 1..Smallest({limit, Len(recent)}) |->
            [interaction |-> recent[k],
             client |-> LET c == CHOOSE c \in Range(rows) : c.id = recent[k].client_id
                        IN  [id |-> c.id, name |-> c.name, company |-> c.company,
                             email |-> None]]]

\* allowed_fields = {'name', 'company', 'email'}
allowed_fields == {"name", "company", "email"}

\* Variant: every key of updates is written.
UpdateAll(updates) == updates

\* update_fields = {k: v for k, v in updates.items() if k in allowed_fields}
update_fields(updates) ==
    [k \in DOMAIN updates \cap allowed_fields |-> updates[k]]

\* UPDATE clients SET <the keys of fields> WHERE id = ?
UpdateRows(rows, id, fields) ==
    [i \in 1..Len(rows) |->
        IF rows[i].id = id
        THEN [k \in DOMAIN rows[i] |->
                 IF k \in DOMAIN fields THEN fields[k] ELSE rows[i][k]]
        ELSE rows[i]]

\* Database.update_client after the allowed keys were selected: None and no
\* statement when there is none.  The client returned is read by get_client on
\* a connection of its own while the UPDATE is not committed yet, so it is the
\* active row as it was before the call.
Updated(rows, id, fields) ==
    IF DOMAIN fields = {}
    THEN [clients |-> rows, out |-> Returned(Absent)]
    ELSE [clients |-> UpdateRows(rows, id, fields),
          out |-> Returned(get_client(rows, id))]

\* Database.update_client(client_id, **updates)
update_client(rows, id, updates) == Updated(rows, id, update_fields(updates))

\* Keyword arguments update_client is called with.
UpdateInputs ==
    { [name |-> "Ann"],
      [company |-> "Beta", email |-> None],
      [name |-> "Bo", id |-> 9, is_active |-> 0],
      [id |-> 9, created_at |-> 5, is_active |-> 0] }

\* db.update_client(id, **updates); the call is recorded with its updates.
CallUpdateClient(id, updates) ==
    /\ clients' = update_client(clients, id, updates).clients
    /\ lastCall' = Call("update_client", updates, FALSE, id, clients,
                        update_client(clients, id, updates).out, <<>>)
    /\ UNCHANGED <<clientSeq, sessionVars, st_error, exVars, genVars, simVars, valVars, crmVars, saveVars, writers>>

\* db.create_interaction(InteractionCreate(client_id, ...))
CallCreateInteraction(client, deal) ==
    /\ interSeq < MaxInteractions
    /\ interactions' = create_interaction(interactions, interSeq, client, deal)
    /\ interSeq' = interSeq + 1
    /\ lastCall' = Call("create_interaction", NoClient, FALSE, client, <<>>,
                        Returned(Present([id |-> interSeq + 1])), <<>>)
    /\ UNCHANGED <<dbVars, sessionVars, st_error, followups, followupSeq, exVars, genVars, simVars, valVars,
                   saveVars, writers>>

\* DELETE FROM interactions WHERE id = ?: the follow-ups of the row stay, no
\* foreign key being enforced.
delete_interaction(rows, interaction_id) ==
    [rows |-> SelectSeq(rows, LAMBDA i : i.id # interaction_id),
     out |-> Returned(Present([bool |-> \E i \in 1..Len(rows) :
                                            rows[i].id = interaction_id]))]

\* db.delete_interaction(interaction_id)
CallDeleteInteraction(interaction_id) ==
    /\ interactions' = delete_interaction(interactions, interaction_id).rows
    /\ lastCall' = Call("delete_interaction", NoClient, FALSE, interaction_id, <<>>,
                        delete_interaction(interactions, interaction_id).out, <<>>)
    /\ UNCHANGED <<dbVars, sessionVars, st_error, interSeq, followups, followupSeq,
                   exVars, genVars, simVars, valVars, saveVars, writers>>

\* db.create_followup(interaction_id, email, message)
CallCreateFollowup(interaction_id) ==
    /\ followupSeq < MaxFollowups
    /\ followups' = create_followup(followups, followupSeq, interaction_id,
                                    EmailText, MessageText)
    /\ followupSeq' = followupSeq + 1
    /\ lastCall' = Call("create_followup", NoClient, FALSE, interaction_id, <<>>,
                        Returned(Present([id |-> followupSeq + 1])), <<>>)
    /\ UNCHANGED <<dbVars, sessionVars, st_error, interactions, interSeq, exVars, genVars, simVars, valVars,
                   saveVars, writers>>

(***************************************************************************)
(* Follow-up generation (ai_followup.py)                                   *)
(***************************************************************************)

\* Field(..., min_length=20) of email_text and Field(..., min_length=10) of
\* message_text
MinEmailLen == 20
MinMessageLen == 10

\* Prompts.get_email_prompt: EMAIL_FOLLOWUP.format(...), the template shortened
\* to its frame and the history left out.
get_email_prompt(client, crm) ==
    "Write a follow-up email based on the interaction details.\nCLIENT: "
    \o client.name \o "\nCOMPANY: "
    \o (IF Truthy(client.company) THEN client.company ELSE "Unknown")
    \o "\nCURRENT INTERACTION:\n" \o crm.summary
    \o "\nNext Action: " \o crm.next_action
    \o "\nObjections: "
    \o (IF Truthy(crm.objections) /\ Strip(crm.objections) # ""
        THEN crm.objections ELSE "None")

\* Prompts.get_message_prompt: MESSAGE_FOLLOWUP.format(...), shortened likewise.
get_message_prompt(client, crm) ==
    "Create a short, casual message.\nCLIENT: " \o client.name
    \o "\nCONTEXT: " \o crm.summary \o "\nNEXT ACTION: " \o crm.next_action

\* Texts the generation capability may answer a follow-up prompt with.
FollowupReplies ==
    {EmailText, "See you Friday", "   Thanks Jon   ", "OK"}

\* Variant: the content returned whatever its lengths.
ContentUnchecked(email_text, message_text) ==
    Returned(Present([email_text |-> email_text, message_text |-> message_text]))

\* FollowUpContent(email_text=..., message_text=...)
FollowUpContentOf(email_text, message_text) ==
    IF Len(email_text) >= MinEmailLen /\ Len(message_text) >= MinMessageLen
    THEN Returned(Present([email_text |-> email_text, message_text |-> message_text]))
    ELSE Raised("ValidationError", <<"FollowUpContent">>)

\* generate is called: the client is looked up and, when it is found, the
\* email prompt is built and the first generation call is made.
GenerateStarts(id, crm, client) ==
    /\ gen_replies' = <<>>
    /\ IF client = Absent
       THEN /\ gen_args' = <<>>
            /\ gen_sent' = <<>>
            /\ gen_out' = Raised("ValueError",
                                 <<"Client " \o ToString(id) \o " not found">>)
            /\ gen_pc' = "done"
       ELSE /\ gen_args' = <<client[1], crm>>
            /\ gen_sent' = <<get_email_prompt(client[1], crm)>>
            /\ gen_out' = NoOutcome
            /\ gen_pc' = "email"

\* What a step of generate leaves alone.
GenerateFrame ==
    UNCHANGED <<dbVars, lastCall, sessionVars, st_error, crmVars, saveVars, valVars,
                simVars, exVars, writers>>

\* generate_followups(client_id, crm_data)
GenerateBegin(id, crm) ==
    /\ gen_pc \in {"idle", "done"}
    /\ GenerateStarts(id, crm, get_client(clients, id))
    /\ GenerateFrame

\* _call_llm raises: raise RuntimeError(...) of the provider's call, which
\* generate does not catch.
GenerateCallFails ==
    /\ gen_pc \in {"email", "message"}
    /\ gen_out' = Raised("RuntimeError", <<"Follow-up generation failed">>)
    /\ gen_pc' = "done"
    /\ gen_args' = <<>>
    /\ UNCHANGED <<gen_sent, gen_replies, writers>>
    /\ GenerateFrame

\* email_text = self._call_llm(email_prompt) returns, stripped: the message
\* prompt is built and the second generation call is made.
GenerateEmailReturns(text) ==
    /\ gen_pc = "email"
    /\ gen_replies' = <<Strip(text)>>
    /\ gen_sent' = Append(gen_sent, get_message_prompt(gen_args[1], gen_args[2]))
    /\ gen_pc' = "message"
    /\ UNCHANGED <<gen_args, gen_out, writers>>
    /\ GenerateFrame

\* message_text = self._call_llm(message_prompt) returns, stripped, and the
\* FollowUpContent is built.
GenerateMessageReturns(text) ==
    /\ gen_pc = "message"
    /\ gen_replies' = Append(gen_replies, Strip(text))
    /\ gen_out' = FollowUpContentOf(gen_replies[1], Strip(text))
    /\ gen_pc' = "done"
    /\ gen_args' = <<>>
    /\ UNCHANGED gen_sent
    /\ GenerateFrame

(***************************************************************************)
(* Presentation layer: processing and saving an interaction (app.py)       *)
(***************************************************************************)

\* Field(..., min_length=10) of InteractionBase.raw_text
MinRawTextLen == 10

\* What the conversation text area may hold when a button is clicked.
PastedTexts == {"Me: Hi Sarah. Sarah: send me the proposal.", "Call me"}

\* The fields of a CRMData.
CRMFields(d) ==
    [summary |-> d.summary, deal_stage |-> d.deal_stage, objections |-> d.objections,
     interest_level |-> d.interest_level, next_action |-> d.next_action,
     followup_date |-> d.followup_date]

\* What extract_crm_data may return for a pasted conversation.
Extractions == { CRMFields(d) : d \in RecordDeals }

\* What generate_followups returns when both generation calls answer.
FollowUpContent == [email_text |-> EmailText, message_text |-> MessageText]

\* InteractionCreate(client_id=..., raw_text=..., summary=crm.summary, ...)
InteractionCreate(raw_text, crm) ==
    [raw_text |-> raw_text, summary |-> crm.summary, deal_stage |-> crm.deal_stage,
     objections |-> crm.objections, interest_level |-> crm.interest_level,
     next_action |-> crm.next_action, followup_date |-> crm.followup_date]

\* page_add_interaction runs from its top before a button of it acts.  selected
\* is the client of the selectbox in "Existing Client" mode, which lists the
\* active clients, and 0 in "New Client" mode, which the user chooses or the
\* page takes when there is no client to list.
Selectable(selected) ==
    selected = 0 \/ \E c \in Range(clients) : c.id = selected /\ IsActive(c)

\* The local client_id of the run: client_options[selected], or new_client_id.
LocalClientId(selected) == IF selected = 0 THEN new_client_id ELSE Present(selected)

\* st.session_state.client_id = client_id is run in "Existing Client" mode only.
RenderedClientId(selected) == IF selected = 0 THEN client_id ELSE Present(selected)

\* The selectbox is set to a client: the page runs and no button acts.
SelectClient(selected) ==
    /\ selected # 0
    /\ Selectable(selected)
    /\ client_id' = Present(selected)
    /\ st_error' = Absent
    /\ UNCHANGED <<dbVars, lastCall, pending_client, duplicate_data, new_client_id,
                   crmVars, saveVars, exVars, genVars, simVars, valVars, writers>>

\* generate_followups(client_id, crm_data.dict()): FollowUpGenerator.generate
\* raises when get_client finds no client; else the generation calls give the
\* contents (generated) or fail.
Generate(id, generated) ==
    IF get_client(clients, id) = Absent
    THEN Raised("ValueError", <<"Client " \o ToString(id) \o " not found">>)
    ELSE IF generated THEN Returned(FollowUpContent)
    ELSE Raised("RuntimeError", <<"generation failed">>)

\* The session after generate_followups ended with out.
FollowupsGenerated(out) ==
    IF out.kind = "return"
    THEN ss_followups' = Present(out.value) /\ st_error' = Absent
    ELSE st_error' = Present("Error: " \o out.args[1]) /\ UNCHANGED ss_followups

\* "Process with AI".  crm is what extract_crm_data returns, Absent when it
\* raises.
ClickProcess(selected, text, crm, generated) ==
    /\ Selectable(selected)
    /\ LocalClientId(selected) # Absent
    /\ text # ""
    /\ IF crm = Absent
       THEN /\ st_error' = Present("Error: extraction failed")
            /\ client_id' = RenderedClientId(selected)
            /\ UNCHANGED saveVars
       ELSE /\ crm_data' = crm
            /\ ss_conversation' = text
            /\ ss_saved' = <<>>
            /\ client_id' = LocalClientId(selected)
            /\ FollowupsGenerated(Generate(LocalClientId(selected)[1], generated))
    /\ UNCHANGED <<dbVars, lastCall, pending_client, duplicate_data, new_client_id,
                   crmVars, exVars, genVars, simVars, valVars, writers>>

\* The tables and the session after "Save to Database" stored the interaction
\* of client id: the follow-ups of the session are stored with it, and the keys
\* of the page are popped.
Saved(id) ==
    /\ interSeq < MaxInteractions
    /\ interactions' = create_interaction(interactions, interSeq, id,
                                          InteractionCreate(ss_conversation, crm_data[1]))
    /\ interSeq' = interSeq + 1
    /\ IF ss_followups # Absent
       THEN /\ followupSeq < MaxFollowups
            /\ followups' = create_followup(followups, followupSeq, interSeq + 1,
                                            ss_followups[1].email_text,
                                            ss_followups[1].message_text)
            /\ followupSeq' = followupSeq + 1
            /\ lastCall' = Call("create_followup", NoClient, FALSE, interSeq + 1, <<>>,
                                Returned(Present([id |-> followupSeq + 1])), <<>>)
       ELSE /\ UNCHANGED <<followups, followupSeq, writers>>
            /\ lastCall' = Call("create_interaction", NoClient, FALSE, id, <<>>,
                                Returned(Present([id |-> interSeq + 1])), <<>>)
    /\ crm_data' = Absent
    /\ ss_followups' = Absent
    /\ ss_conversation' = ""
    /\ ss_saved' = <<>>
    /\ client_id' = Absent
    /\ new_client_id' = Absent
    /\ duplicate_data' = Absent
    /\ pending_client' = Absent
    /\ st_error' = Absent

\* except Exception as e: st.error(f"Save failed: {str(e)}"), InteractionCreate
\* having raised.
SaveFailed(id) ==
    /\ st_error' = Present("Save failed: ValidationError")
    /\ client_id' = id
    /\ UNCHANGED <<lastCall, pending_client, duplicate_data, new_client_id, crmVars,
                   saveVars, writers>>

\* create_interaction returned and committed, then create_followup raised
\* DatabaseError: except Exception as e: st.error(f"Save failed: {str(e)}"), and
\* no key of the session is popped.
SavedInteractionOnly(id) ==
    /\ ss_followups # Absent
    /\ interSeq < MaxInteractions
    /\ interactions' = create_interaction(interactions, interSeq, id,
                                          InteractionCreate(ss_conversation, crm_data[1]))
    /\ interSeq' = interSeq + 1
    /\ ss_saved' = Append(ss_saved, interSeq + 1)
    /\ lastCall' = Call("create_followup", NoClient, FALSE, interSeq + 1, <<>>,
                        Raised("DatabaseError", <<"Database error">>), <<>>)
    /\ st_error' = Present("Save failed: Database error")
    /\ client_id' = Present(id)
    /\ UNCHANGED <<pending_client, duplicate_data, new_client_id, followups,
                   followupSeq, crm_data, ss_conversation, ss_followups, writers>>

\* "Save to Database", shown while the session holds crm_data.  followup_fails:
\* the connection of create_followup raises.
ClickSave(selected, followup_fails) ==
    /\ Selectable(selected)
    /\ crm_data # Absent
    /\ IF RenderedClientId(selected) = Absent \/ Len(ss_conversation) < MinRawTextLen
       THEN ~followup_fails /\ SaveFailed(RenderedClientId(selected))
       ELSE IF followup_fails
            THEN SavedInteractionOnly(RenderedClientId(selected)[1])
            ELSE Saved(RenderedClientId(selected)[1])
    /\ UNCHANGED <<dbVars, exVars, genVars, simVars, valVars, writers>>

\* "Discard"
ClickDiscard(selected) ==
    /\ Selectable(selected)
    /\ crm_data # Absent
    /\ crm_data' = Absent
    /\ ss_followups' = Absent
    /\ ss_conversation' = ""
    /\ ss_saved' = <<>>
    /\ client_id' = RenderedClientId(selected)
    /\ st_error' = Absent
    /\ UNCHANGED <<dbVars, lastCall, pending_client, duplicate_data, new_client_id,
                   crmVars, exVars, genVars, simVars, valVars, writers>>

(***************************************************************************)
(* Presentation layer: the edit form of page_clients (app.py)              *)
(***************************************************************************)

\* What the edit form can submit: the three text inputs as they stand.
EditInputs ==
    { [name |-> "",   company |-> "",     email |-> ""],
      [name |-> "Jo", company |-> "Acme", email |-> "j@x"],
      [name |-> LongName, company |-> "Beta", email |-> ""] }

\* The tab "Active Clients" lists the client: get_all_clients builds a Client
\* of every active row, which raises for a row ClientBase rejects.
Listed(id) ==
    /\ \E c \in Range(clients) : c.id = id /\ IsActive(c)
    /\ \A c \in Range(clients) : IsActive(c) => ClientCreateValid(c)

\* "Update Client" of the details of a listed client: update_client is given
\* the three inputs as they are.
ClickUpdateClient(id, form) ==
    /\ Listed(id)
    /\ clients' = update_client(clients, id, form).clients
    /\ lastCall' = Call("update_client", form, FALSE, id, clients,
                        update_client(clients, id, form).out, <<>>)
    /\ st_error' = Absent
    /\ UNCHANGED <<clientSeq, sessionVars, exVars, genVars, simVars, valVars, crmVars, saveVars, writers>>

(***************************************************************************)
(* Presentation layer: the active deals of page_followups (app.py)         *)
(***************************************************************************)

\* The latest interaction of an active client, when it is not closed: the
\* entries of active_deals.
HasActiveDeal(client) ==
    /\ \E c \in Range(clients) : c.id = client /\ IsActive(c)
    /\ get_client_interactions(interactions, client) # <<>>
    /\ get_client_interactions(interactions, client)[1].deal_stage
           \notin {"closed_won", "closed_lost"}

Latest(client) == get_client_interactions(interactions, client)[1]

\* won_data, lost_data and skip_data
CloseData(choice, inter) ==
    CASE choice = "won" ->
           [raw_text |-> "Deal marked as closed won from follow-up page",
            summary |-> "Deal closed successfully. Previous: " \o inter.summary,
            deal_stage |-> "closed_won", objections |-> None, interest_level |-> "hot",
            next_action |-> "None - Deal closed", followup_date |-> None]
      [] choice = "lost" ->
           [raw_text |-> "Deal marked as closed lost from follow-up page",
            summary |-> "Deal lost. Previous: " \o inter.summary,
            deal_stage |-> "closed_lost", objections |-> None,
            interest_level |-> "cold",
            next_action |-> "None - Deal lost", followup_date |-> None]
      [] OTHER ->
           [raw_text |-> "Follow-up deferred",
            summary |-> "Follow-up deferred. Previous: " \o inter.summary,
            deal_stage |-> inter.deal_stage, objections |-> None,
            interest_level |-> inter.interest_level,
            next_action |-> "Follow-up deferred by user", followup_date |-> None]

\* Variant: the page takes every deal as one without follow-up.
NeverHasFollowup(inter) == FALSE

\* 'has_followup': existing_followup is not None
has_followup(inter) == get_followup(followups, inter.id) # Absent

\* "Mark as Won", "Mark as Lost" and "Skip/Defer" of a deal whose follow-up exists.
ClickClose(client, choice) ==
    /\ HasActiveDeal(client)
    /\ has_followup(Latest(client))
    /\ interSeq < MaxInteractions
    /\ interactions' = create_interaction(interactions, interSeq, client,
                                          CloseData(choice, Latest(client)))
    /\ interSeq' = interSeq + 1
    /\ lastCall' = Call("create_interaction", NoClient, FALSE, client, <<>>,
                        Returned(Present([id |-> interSeq + 1])), <<>>)
    /\ st_error' = Absent
    /\ UNCHANGED <<dbVars, sessionVars, followups, followupSeq, saveVars, exVars, genVars, simVars, valVars, writers>>

\* The follow-ups table after generate_followups ended with out.
GeneratedNow(inter, out) ==
    IF out.kind = "return"
    THEN /\ followupSeq < MaxFollowups
         /\ followups' = create_followup(followups, followupSeq, inter.id,
                                         out.value.email_text, out.value.message_text)
         /\ followupSeq' = followupSeq + 1
         /\ lastCall' = Call("create_followup", NoClient, FALSE, inter.id, <<>>,
                             Returned(Present([id |-> followupSeq + 1])), <<>>)
         /\ st_error' = Absent
    ELSE /\ st_error' = Present("Error: " \o out.args[1])
         /\ UNCHANGED <<followups, followupSeq, lastCall, writers>>

\* "Generate Follow-up Now" of a deal without follow-up.
ClickGenerateNow(client, generated) ==
    /\ HasActiveDeal(client)
    /\ ~has_followup(Latest(client))
    /\ GeneratedNow(Latest(client), Generate(client, generated))
    /\ UNCHANGED <<dbVars, sessionVars, interactions, interSeq, saveVars, exVars, genVars, simVars, valVars, writers>>

(***************************************************************************)
(* Specifications                                                          *)
(***************************************************************************)

ClientIds == 1..MaxClients

InitOther ==
    /\ clients = <<>>
    /\ clientSeq = 0
    /\ lastCall = Call("none", NoClient, FALSE, 0, <<>>, Returned(Absent), <<>>)
    /\ pending_client = Absent
    /\ duplicate_data = Absent
    /\ new_client_id = Absent
    /\ client_id = Absent
    /\ st_error = Absent
    /\ crm_data = Absent
    /\ ss_conversation = ""
    /\ ss_followups = Absent
    /\ ss_saved = <<>>
    /\ val_outcome = NoOutcome
    /\ sim_result = <<>>
    /\ writers = [w \in Writers |-> Idle]
    /\ gen_pc = "idle"
    /\ gen_args = <<>>
    /\ gen_sent = <<>>
    /\ gen_replies = <<>>
    /\ gen_out = NoOutcome
    /\ interactions = <<>>
    /\ interSeq = 0
    /\ followups = <<>>
    /\ followupSeq = 0
    /\ provider = ""
    /\ ex_pc = "idle"
    /\ prompt = ""
    /\ sent = <<>>
    /\ replies = <<>>
    /\ raw_output = ""
    /\ extracted = NoOutcome

\* The state after construction: no text has been given to the validator.
Init == InitOther /\ val_input = "" /\ sim_input = <<>>

\* The validator called on its own: the text it is given is drawn.
InitValidate == InitOther /\ val_input \in ValidatorInputs /\ sim_input = <<>>

\* The similarity scorer called on its own: the two texts are drawn.
InitSimilarity ==
    InitOther /\ val_input = "" /\ sim_input \in SimilarityTexts \X SimilarityTexts

\* The Record Store interface, called directly.
NextStore ==
    \/ \E c \in Candidates, force \in BOOLEAN : CallCreateClient(c, force)
    \/ \E c \in Candidates : CallFindPotentialDuplicates(c)
    \/ \E id \in ClientIds, soft \in BOOLEAN : CallDeleteClient(id, soft)
    \/ \E id \in ClientIds : CallRestoreClient(id)

SpecStore == Init /\ [][NextStore]_vars

\* A single writer that creates without force, soft-deletes and hard-deletes.
NextChecked ==
    \/ \E c \in Candidates : CallCreateClient(c, FALSE)
    \/ \E id \in ClientIds, soft \in BOOLEAN : CallDeleteClient(id, soft)

SpecChecked == Init /\ [][NextChecked]_vars

\* Two writers calling create_client(client, force=False), each call a
\* duplicate check and then an insert.
NextConcurrent ==
    \/ \E w \in Writers, c \in Candidates : CreateCheck(w, c)
    \/ \E w \in Writers : CreateInsert(w)

SpecConcurrent == Init /\ [][NextConcurrent]_vars

\* The new-client flow of the presentation layer.
NextNewClient ==
    \/ \E f \in FormInputs : ClickCheckDuplicates(f)
    \/ \E f \in FormInputs : ClickCreateClient(f)
    \/ on_continue
    \/ on_cancel
    \/ ClickClear
    \/ \E id \in ClientIds : ClickConfirmDelete(id)

SpecNewClient == Init /\ [][NextNewClient]_vars

\* The Record Store with its three tables.
NextRecords ==
    \/ \E c \in RecordCandidates : CallCreateClient(c, TRUE)
    \/ \E id \in 1..clientSeq, soft \in BOOLEAN : CallDeleteClient(id, soft)
    \/ \E id \in 1..clientSeq : CallRestoreClient(id)
    \/ \E id \in 1..clientSeq, d \in RecordDeals : CallCreateInteraction(id, d)
    \/ \E id \in 1..interSeq : CallCreateFollowup(id)

SpecRecords == Init /\ [][NextRecords]_vars

\* The Record Store with update_client; the interactions and the follow-ups are
\* those of the first client.
NextUpdate ==
    \/ \E c \in RecordCandidates : CallCreateClient(c, TRUE)
    \/ \E id \in 1..(clientSeq + 1), u \in UpdateInputs : CallUpdateClient(id, u)
    \/ \E d \in RecordDeals : CallCreateInteraction(1, d)
    \/ CallCreateFollowup(1)

SpecUpdate == Init /\ [][NextUpdate]_vars

\* Clients created, updated through the Record Store and edited on the
\* Clients page.
NextEdit ==
    \/ \E c \in RecordCandidates, force \in BOOLEAN : CallCreateClient(c, force)
    \/ \E id \in 1..clientSeq, u \in UpdateInputs : CallUpdateClient(id, u)
    \/ \E id \in 1..clientSeq, f \in EditInputs : ClickUpdateClient(id, f)
    \/ \E id \in 1..clientSeq : ClickConfirmDelete(id)

SpecEdit == Init /\ [][NextEdit]_vars

\* The pages of the presentation layer: a client is created or selected, a
\* conversation processed and saved, clients deleted, deals closed.
NextSave ==
    \/ \E f \in RecordCandidates : ClickCreateClient(f)
    \/ on_continue
    \/ on_cancel
    \/ \E id \in 1..clientSeq : SelectClient(id)
    \/ \E id \in 0..clientSeq, t \in PastedTexts, g \in BOOLEAN,
          crm \in {Absent} \cup { Present(e) : e \in Extractions } :
           ClickProcess(id, t, crm, g)
    \/ \E id \in 0..clientSeq, f \in BOOLEAN : ClickSave(id, f)
    \/ \E id \in 0..clientSeq : ClickDiscard(id)
    \/ ClickClear
    \/ \E id \in 1..clientSeq : ClickConfirmDelete(id)
    \/ \E id \in 1..clientSeq, choice \in {"won", "lost", "skip"} : ClickClose(id, choice)
    \/ \E id \in 1..clientSeq, g \in BOOLEAN : ClickGenerateNow(id, g)

SpecSave == Init /\ [][NextSave]_vars

\* The pages where interactions and follow-ups are stored, for two clients
\* created once each.
NextDeals ==
    \/ \E c \in DealCandidates :
           /\ \A i \in 1..Len(clients) : clients[i].name # c.name
           /\ CallCreateClient(c, TRUE)
    \/ \E id \in 1..clientSeq : SelectClient(id)
    \/ \E id \in 0..clientSeq, t \in PastedTexts, g \in BOOLEAN,
          crm \in {Absent} \cup { Present(e) : e \in Extractions } :
           ClickProcess(id, t, crm, g)
    \/ \E id \in 0..clientSeq, f \in BOOLEAN : ClickSave(id, f)
    \/ \E id \in 0..clientSeq : ClickDiscard(id)
    \/ \E id \in 1..clientSeq, choice \in {"won", "lost", "skip"} : ClickClose(id, choice)
    \/ \E id \in 1..clientSeq, g \in BOOLEAN : ClickGenerateNow(id, g)

SpecDeals == Init /\ [][NextDeals]_vars

\* The steps that write the interactions table: Save to Database of a
\* processed conversation, Mark as Won / Lost / Skip, and delete_interaction
\* called on the Record Store beside the pages.
NextAppend ==
    \/ \E c \in DealCandidates :
           /\ \A i \in 1..Len(clients) : clients[i].name # c.name
           /\ CallCreateClient(c, TRUE)
    \/ \E id \in 1..clientSeq, t \in PastedTexts, g \in BOOLEAN, e \in Extractions :
           ClickProcess(id, t, Present(e), g)
    \/ \E id \in 0..clientSeq, f \in BOOLEAN : ClickSave(id, f)
    \/ \E id \in 1..clientSeq, choice \in {"won", "lost", "skip"} : ClickClose(id, choice)
    \/ \E id \in 1..(interSeq + 1) : CallDeleteInteraction(id)

SpecAppend == Init /\ [][NextAppend]_vars

\* CRMExtractor.extract, run after run.
NextExtract ==
    \/ \E c \in Conversations, x \in Contexts, p \in Providers : ExtractBegin(c, x, p)
    \/ \E e \in {"TimeoutError", "RuntimeError", "ImportError"} : ExtractFirstFails(e)
    \/ \E t \in GenOutputs : ExtractFirstReturns(t)
    \/ \E e \in {"TimeoutError", "RuntimeError", "ImportError"} : ExtractRetryFails(e)
    \/ \E t \in GenOutputs : ExtractRetryReturns(t)

SpecExtract == Init /\ [][NextExtract]_vars

\* The similarity scorer applied to the texts drawn, in both orders.
NextSimilarity == CallSimilarity

SpecSimilarity == InitSimilarity /\ [][NextSimilarity]_vars

\* generate_followups, run after run, for clients created and soft-deleted.
NextGenerate ==
    \/ \E c \in RecordCandidates : CallCreateClient(c, TRUE)
    \/ \E id \in 1..clientSeq : CallDeleteClient(id, TRUE)
    \/ \E id \in 1..(clientSeq + 1), crm \in Extractions : GenerateBegin(id, crm)
    \/ GenerateCallFails
    \/ \E t \in FollowupReplies : GenerateEmailReturns(t)
    \/ \E t \in FollowupReplies : GenerateMessageReturns(t)

SpecGenerate == Init /\ [][NextGenerate]_vars

\* The validator applied to the text drawn.
NextValidate == CallValidate

SpecValidate == InitValidate /\ [][NextValidate]_vars
(***************************************************************************)
(* Properties of the Record Store and the duplicate detector (SpecStore)   *)
(***************************************************************************)

\* The last call was find_potential_duplicates / create_client.
LastScan == lastCall.op = "find_potential_duplicates"
LastCreate == lastCall.op = "create_client"

\* The active rows of the table the last call worked on.
ActiveBefore == { r \in Range(lastCall.before) : r.is_active = 1 }

\* What find_potential_duplicates gives for the candidate of the last call on
\* the table before it.
MatchesBefore ==
    find_potential_duplicates(lastCall.before, lastCall.client.name,
                              lastCall.client.email, lastCall.client.company)

\* C5: create_client without force, when find_potential_duplicates has at
\* least one match for the candidate, leaves the stored clients unchanged and
\* fails with a DuplicateClientError whose second argument is exactly the
\* ranked list find_potential_duplicates returns.
InvC5 ==
    (LastCreate /\ ~lastCall.flag /\ MatchesBefore # <<>>)
        => /\ clients = lastCall.before
           /\ lastCall.out.kind = "raise"
           /\ lastCall.out.type = "DuplicateClientError"
           /\ Len(lastCall.out.args) = 2
           /\ lastCall.out.args[2] = MatchesBefore

\* An unforced create_client refused with a ranked list of two matches.
WitC5 ==
    /\ LastCreate
    /\ ~lastCall.flag
    /\ lastCall.out.kind = "raise"
    /\ Len(lastCall.out.args[2]) = 2
    /\ clients = lastCall.before

\* C7: every active record whose email equals the candidate's email ignoring
\* case, both non-empty, is matched with email_match true and total_score
\* 100, whatever its name and company similarities.
InvC7 ==
    LastScan =>
        \A r \in ActiveBefore :
            (/\ Truthy(lastCall.client.email)
             /\ Truthy(r.email)
             /\ Lower(lastCall.client.email) = Lower(r.email))
                => \E i \in 1..Len(lastCall.out.value) :
                       /\ lastCall.out.value[i].id = r.id
                       /\ lastCall.out.value[i].email_match
                       /\ lastCall.out.value[i].total_score = FracInt(100)

\* A match by email written in another case, of a record with another name.
WitC7 ==
    /\ LastScan
    /\ \E i \in 1..Len(lastCall.out.value) :
           /\ lastCall.out.value[i].email_match
           /\ lastCall.out.value[i].email # lastCall.client.email
           /\ ~FracGE(lastCall.out.value[i].name_similarity, FracInt(50))
           /\ lastCall.out.value[i].total_score = FracInt(100)

\* C8: every scanned record without an email match has total_score =
\* 0.7 * name_similarity + 0.3 * company_similarity, with company_similarity
\* 0 when the candidate's or the record's company is absent or empty.
InvC8 ==
    LastScan =>
        /\ Len(lastCall.scored) = Cardinality(ActiveBefore)
        /\ \A i \in 1..Len(lastCall.scored) :
               ~lastCall.scored[i].email_match
                   => /\ lastCall.scored[i].total_score
                            = FracAdd(FracTenths(lastCall.scored[i].name_similarity, 7),
                                      FracTenths(lastCall.scored[i].company_similarity, 3))
                      /\ lastCall.scored[i].name_similarity
                            = calculate_similarity(lastCall.client.name,
                                                   lastCall.scored[i].name)
                      /\ (lastCall.client.company \in {None, ""}
                          \/ lastCall.scored[i].company \in {None, ""})
                             => lastCall.scored[i].company_similarity = FracInt(0)
                      /\ (lastCall.client.company \notin {None, ""}
                          /\ lastCall.scored[i].company \notin {None, ""})
                             => lastCall.scored[i].company_similarity
                                    = calculate_similarity(lastCall.client.company,
                                                           lastCall.scored[i].company)

\* A candidate without company against a record of the same name with a
\* company: company_similarity 0 and total_score 70.
WitC8 ==
    /\ LastScan
    /\ \E i \in 1..Len(lastCall.scored) :
           /\ ~lastCall.scored[i].email_match
           /\ lastCall.client.company = None
           /\ lastCall.scored[i].company = "Acme"
           /\ lastCall.scored[i].company_similarity = FracInt(0)
           /\ lastCall.scored[i].total_score = FracInt(70)

\* C9: the result of find_potential_duplicates holds exactly the active
\* records with total_score >= 85 or email_match true, each once and with
\* its scores: none below the threshold without an email match is returned,
\* none meeting the condition is left out.
InvC9 ==
    LastScan =>
        /\ \A r \in ActiveBefore :
               (\E i \in 1..Len(lastCall.out.value) : lastCall.out.value[i].id = r.id)
                   <=> \/ FracGE(ScoreRow(r, lastCall.client.name, lastCall.client.email,
                                          lastCall.client.company).total_score,
                                 FracInt(DUPLICATE_SIMILARITY_THRESHOLD))
                       \/ ScoreRow(r, lastCall.client.name, lastCall.client.email,
                                   lastCall.client.company).email_match
        /\ \A i \in 1..Len(lastCall.out.value) :
               \E r \in ActiveBefore :
                   lastCall.out.value[i]
                       = ScoreRow(r, lastCall.client.name, lastCall.client.email,
                                  lastCall.client.company)
        /\ \A i, j \in 1..Len(lastCall.out.value) :
               lastCall.out.value[i].id = lastCall.out.value[j].id => i = j

\* One active record returned, another active record at 70 left out.
WitC9 ==
    /\ LastScan
    /\ Len(lastCall.out.value) = 1
    /\ \E r \in ActiveBefore :
           /\ r.id # lastCall.out.value[1].id
           /\ ScoreRow(r, lastCall.client.name, lastCall.client.email,
                       lastCall.client.company).total_score = FracInt(70)

\* C10: the list returned by find_potential_duplicates is ordered by
\* total_score descending: of two adjacent matches the earlier has a
\* total_score at least the later's.
InvC10 ==
    LastScan =>
        \A i \in 1..(Len(lastCall.out.value) - 1) :
            FracGE(lastCall.out.value[i].total_score,
                   lastCall.out.value[i + 1].total_score)

\* The email match of the later row comes before the 90 of the earlier row.
WitC10 ==
    /\ LastScan
    /\ Len(lastCall.out.value) = 2
    /\ lastCall.out.value[1].email_match
    /\ lastCall.out.value[2].total_score = FracInt(90)
    /\ lastCall.out.value[1].id > lastCall.out.value[2].id

RowBefore == CHOOSE r \in Range(lastCall.before) : r.id = lastCall.id

\* C12: after a soft delete the client is not in get_all_clients without
\* include_inactive; after a restore get_client gives the client with the id,
\* name, company, email and created_at it had, and it is listed again;
\* neither call changes those fields of any client.
InvC12 ==
    /\ (lastCall.op = "delete_client" /\ lastCall.flag)
           => /\ \A i \in 1..Len(get_all_clients(clients, FALSE)) :
                     get_all_clients(clients, FALSE)[i].id # lastCall.id
              /\ ClientsOf(clients) = ClientsOf(lastCall.before)
    /\ lastCall.op = "restore_client"
           => /\ get_client(clients, lastCall.id) = Present(ClientOf(RowBefore))
              /\ ClientOf(RowBefore) \in Range(get_all_clients(clients, FALSE))
              /\ ClientsOf(clients) = ClientsOf(lastCall.before)

\* The second client, soft-deleted before, has just been restored and is
\* returned by get_client.
WitC12 ==
    /\ lastCall.op = "restore_client"
    /\ lastCall.id = 2
    /\ RowBefore.is_active = 0
    /\ get_client(clients, 2) # Absent
    /\ get_client(clients, 2)[1].created_at = CurrentTimestamp(1)

\* C13 as stated: get_client resolves every stored client, soft-deleted or not.
ClaimC13 ==
    \A r \in Range(clients) : get_client(clients, r.id) = Present(ClientOf(r))

(***************************************************************************)
(* Properties of the three tables (SpecRecords)                            *)
(***************************************************************************)

\* C14 as stated: after delete_client(id, soft_delete=False) no interaction
\* references id and every follow-up references a stored interaction.
ClaimC14 ==
    (lastCall.op = "delete_client" /\ ~lastCall.flag)
        => /\ \A i \in Range(interactions) : i.client_id # lastCall.id
           /\ \A f \in Range(followups) :
                  \E i \in Range(interactions) : i.id = f.interaction_id

\* What search_clients is asked for.
Queries == {"jo", "ACME", ""}

\* The ids of a list of clients.
IdsOf(list) == { list[i].id : i \in 1..Len(list) }

\* The interactions of a stage whose client is stored and, unless
\* include_inactive, active.
Counted(st, include_inactive) ==
    { i \in Range(interactions) :
        /\ i.deal_stage = st
        /\ \E c \in Range(clients) :
               c.id = i.client_id /\ (include_inactive \/ c.is_active = 1) }

\* The stats hold the number of counted interactions of every stage that has
\* one, and no other stage.
StatsCount(stats, include_inactive) ==
    /\ DOMAIN stats = { st \in DealStage : Counted(st, include_inactive) # {} }
    /\ \A st \in DOMAIN stats : stats[st] = Cardinality(Counted(st, include_inactive))

\* The soft-deleted clients.
Inactive == { c \in Range(clients) : c.is_active = 0 }

\* No soft-deleted client is in a list of clients / every one is.
Hidden(list) == \A c \in Inactive : c.id \notin IdsOf(list)
Shown(list) == \A c \in Inactive : c.id \in IdsOf(list)

\* A search with include_inactive finds the soft-deleted clients whose name or
\* company holds the query.
Found(q, list) ==
    \A c \in Inactive : (Like(c.name, q) \/ Like(c.company, q)) => c.id \in IdsOf(list)

\* No recent interaction is of a soft-deleted client.
NoneOfInactive(recent) ==
    \A k \in 1..Len(recent) : \A c \in Inactive : recent[k].client.id # c.id

\* C16: a client whose active flag is cleared is absent from get_all_clients
\* and search_clients without include_inactive, its interactions are not
\* counted by get_pipeline_stats without include_inactive nor returned by
\* get_recent_interactions; with include_inactive it is listed, found and
\* counted.
InvC16 ==
    /\ Hidden(get_all_clients(clients, FALSE))
    /\ Shown(get_all_clients(clients, TRUE))
    /\ \A q \in Queries :
           /\ Hidden(search_clients(clients, q, FALSE))
           /\ Found(q, search_clients(clients, q, TRUE))
    /\ NoneOfInactive(get_recent_interactions(interactions, clients, MaxInteractions))
    /\ StatsCount(get_pipeline_stats(interactions, clients, FALSE), FALSE)
    /\ StatsCount(get_pipeline_stats(interactions, clients, TRUE), TRUE)

\* A soft-deleted client and an active client with one interaction each: one
\* interaction counted by default, two with include_inactive.
WitC16 ==
    /\ \E c \in Range(clients) :
           /\ c.is_active = 0
           /\ \E i \in Range(interactions) : i.client_id = c.id
           /\ c.id \in IdsOf(search_clients(clients, "jo", TRUE))
    /\ get_pipeline_stats(interactions, clients, FALSE) = [st \in {"proposal"} |-> 1]
    /\ get_pipeline_stats(interactions, clients, TRUE) = [st \in {"proposal"} |-> 2]
    /\ Len(get_recent_interactions(interactions, clients, MaxInteractions)) = 1

(***************************************************************************)
(* Properties of update_client (SpecUpdate)                                *)
(***************************************************************************)

\* The step is a call of update_client.
UpdateCalled == lastCall' # lastCall /\ lastCall'.op = "update_client"

\* The row at position i after the call: name, company and email are those of
\* the updates where the updates hold the key, every other column is kept.
RowUpdated(i, updates) ==
    /\ DOMAIN clients'[i] = DOMAIN clients[i]
    /\ \A k \in DOMAIN clients[i] :
           clients'[i][k] = IF k \in allowed_fields \cap DOMAIN updates
                            THEN updates[k] ELSE clients[i][k]

\* C17: update_client changes only the name, company and email of the
\* addressed client: a key other than these is ignored, every other client,
\* every interaction and every follow-up is unchanged, and a call with no
\* allowed key changes nothing and returns no client.
InvC17 ==
    [][UpdateCalled =>
           /\ Len(clients') = Len(clients)
           /\ \A i \in 1..Len(clients) :
                  IF clients[i].id = lastCall'.id
                  THEN RowUpdated(i, lastCall'.client)
                  ELSE clients'[i] = clients[i]
           /\ UNCHANGED <<clientSeq, interactions, interSeq, followups, followupSeq, writers>>
           /\ DOMAIN lastCall'.client \cap allowed_fields = {} =>
                  clients' = clients /\ lastCall'.out = Returned(Absent)]_vars

\* update_client(1, name="Bo", id=9, is_active=0) has renamed the first of two
\* clients, which kept its id and its active flag, while an interaction and a
\* follow-up are stored.
WitC17 ==
    /\ lastCall.op = "update_client"
    /\ lastCall.client = [name |-> "Bo", id |-> 9, is_active |-> 0]
    /\ lastCall.id = 1
    /\ Len(clients) = 2
    /\ lastCall.before[1].name = "Jon"
    /\ clients[1].name = "Bo" /\ clients[1].id = 1 /\ clients[1].is_active = 1
    /\ interactions # <<>>
    /\ followups # <<>>

(***************************************************************************)
(* Properties of the edit form (SpecEdit)                                  *)
(***************************************************************************)

\* C18: every stored client has a name of 1 to 100 characters, after any
\* sequence of create_client and update_client calls, the updates of the edit
\* form included.
ClaimC18 ==
    \A c \in Range(clients) : Len(c.name) >= MinNameLen /\ Len(c.name) <= MaxFieldLen

(***************************************************************************)
(* Properties of processing, saving and closing (SpecSave)                 *)
(***************************************************************************)

\* C15: every interaction references a live client when it is created: no step
\* stores an interaction whose client_id get_client does not resolve at that
\* moment, the client being soft-deleted or not stored.
ClaimC15 ==
    [][Len(interactions') > Len(interactions) =>
           get_client(clients, interactions'[Len(interactions')].client_id) # Absent]_vars

(***************************************************************************)
(* Properties of the new-client flow (SpecNewClient)                       *)
(***************************************************************************)

\* The row create_client inserts for a client.
NewRow(client) ==
    [id |-> clientSeq + 1, name |-> client.name, company |-> client.company,
     email |-> client.email, created_at |-> CurrentTimestamp(clientSeq),
     is_active |-> 1]

\* After create_client with force=True the table is the table before it with
\* one more row: active, with a fresh id and the name, company and email given.
ForcedCreateInserts ==
    (LastCreate /\ lastCall.flag)
        => /\ lastCall.out.kind = "return"
           /\ Len(clients) = Len(lastCall.before) + 1
           /\ SubSeq(clients, 1, Len(lastCall.before)) = lastCall.before
           /\ clients[Len(clients)]
                  = [id |-> lastCall.out.value[1].id, name |-> lastCall.client.name,
                     company |-> lastCall.client.company,
                     email |-> lastCall.client.email,
                     created_at |-> lastCall.out.value[1].created_at, is_active |-> 1]
           /\ \A r \in Range(lastCall.before) : r.id # lastCall.out.value[1].id

\* "Create Anyway" appends the pending client to the table and closes the warning.
ContinueCreates ==
    /\ clients' = Append(clients, NewRow(pending_client[1]))
    /\ new_client_id' = Present(clientSeq + 1)
    /\ duplicate_data' = Absent

\* "Cancel" leaves the table as it is.
CancelCreatesNothing == on_cancel => (clients' = clients /\ clientSeq' = clientSeq)

Passes(text) == validate_json_output(clean_json_response(text)).kind = "return"

\* Some generation call of this run raised a provider error.
ProviderFailed == \E i \in 1..Len(replies) : ~replies[i].ok

\* The error raised by extract carries the text: it is one of the error's
\* arguments or occurs in one of them.
Carries(err, text) ==
    \E i \in 1..Len(err.args) :
        \/ err.args[i] = text
        \/ Occurrences(err.args[i], text, 1) # {}

\* C1: when no generation call raises a provider error, a finished run of
\* extract has made exactly one generation call if the first output passes
\* cleaning and validation and exactly two otherwise; a run never stands at
\* zero calls nor at three or more.
InvC1 ==
    /\ ex_pc # "idle" => Len(sent) \in {1, 2}
    /\ (ex_pc = "done" /\ ~ProviderFailed)
           => Len(sent) = (IF Passes(replies[1].text) THEN 1 ELSE 2)

\* Both outputs failed validation: two calls, and the run ended with the error.
WitC1 ==
    /\ ex_pc = "done"
    /\ ~ProviderFailed
    /\ Len(sent) = 2
    /\ extracted.kind = "raise"

\* C2: extract returns a record exactly when the first output validates, or
\* the first fails and the retry output validates; the record is the
\* validator's result on the output that passed, and when both outputs fail
\* no record is returned.
InvC2 ==
    ex_pc = "done" =>
        /\ extracted.kind = "return"
               <=> \/ /\ Len(replies) >= 1
                      /\ replies[1].ok
                      /\ Passes(replies[1].text)
                   \/ /\ Len(replies) = 2
                      /\ replies[2].ok
                      /\ ~Passes(replies[1].text)
                      /\ Passes(replies[2].text)
        /\ extracted.kind = "return"
               => /\ extracted = validate_json_output(
                                     clean_json_response(replies[Len(replies)].text))
                  /\ raw_output = replies[Len(replies)].text
                  /\ \A i \in 1..(Len(replies) - 1) : ~Passes(replies[i].text)

\* The first output failed validation and the retry output was returned.
WitC2 ==
    /\ ex_pc = "done"
    /\ Len(replies) = 2
    /\ ~Passes(replies[1].text)
    /\ extracted.kind = "return"
    /\ extracted.value[1].objections = None

\* C3 as stated: when the retry output fails validation as well, the error
\* raised by extract carries the last raw output together with the
\* validator's reason.
ClaimC3 ==
    (ex_pc = "done" /\ Len(replies) = 2 /\ replies[2].ok /\ extracted.kind = "raise")
        => /\ Carries(extracted, raw_output)
           /\ extracted.args # <<>>

\* C4: a provider error raised by the first or by the retry generation call
\* is the error extract raises, it ends the run, and no generation call
\* follows it; a provider error of the first call starts no retry.
InvC4 ==
    \A i \in 1..Len(replies) :
        ~replies[i].ok
            => /\ i = Len(replies)
               /\ Len(sent) = i
               /\ ex_pc = "done"
               /\ extracted.kind = "raise"
               /\ extracted.type = replies[i].error
               /\ extracted.type \in ProviderErrors(provider)

\* The retry call raised a provider error after the first output failed validation.
WitC4 ==
    /\ Len(replies) = 2
    /\ replies[1].ok
    /\ ~replies[2].ok
    /\ extracted.type = "RuntimeError"

(***************************************************************************)
(* Properties of the validator (SpecValidate)                              *)
(***************************************************************************)

\* The object of the last validator call, as json.loads gives it.
Given == json_loads(val_input)

\* The values the spec has normalized to absent, compared without case.
NoObjections == {"none", "n/a", "no objections", ""}

Normalized(given, returned) ==
    returned = IF Lower(given) \in NoObjections THEN None ELSE given

\* C19: the validator returns objections as absent when the value given equals
\* "none", "n/a", "no objections" or "" without regard to case, and returns
\* every other value unchanged.
ClaimC19 ==
    (Given.ok /\ val_outcome.kind = "return" /\ Field(Given.dict, "objections") # None)
        => Normalized(Field(Given.dict, "objections"), val_outcome.value[1].objections)

\* The message names the field.
Names(message, field) == Occurrences(message, field, 1) # {}

\* The call was rejected with a schema failure naming the field.
RejectedFor(out, field) ==
    /\ out.kind = "raise"
    /\ out.type = "ValueError"
    /\ FirstIndex(out.args[1], "Schema validation failed:", 1) = 1
    /\ Names(out.args[1], field)

\* What the closed sets ask of the outcome of a call given the object data.
ClosedSets(data, out) ==
    /\ Field(data, "deal_stage") \notin DealStage => RejectedFor(out, "deal_stage")
    /\ Field(data, "interest_level") \notin InterestLevel
           => RejectedFor(out, "interest_level")
    /\ out.kind = "return" =>
           /\ out.value[1].deal_stage = Field(data, "deal_stage")
           /\ out.value[1].interest_level = Field(data, "interest_level")

\* C20: an input whose deal_stage is outside DealStage or whose interest_level
\* is outside InterestLevel is rejected with a schema failure that names the
\* field; a value returned is the value given, never another member.
InvC20 == (val_outcome # NoOutcome /\ Given.ok) => ClosedSets(Given.dict, val_outcome)

\* The validator was given deal_stage "maybe" with a valid interest_level and
\* raised a schema failure naming deal_stage.
WitC20 ==
    /\ Given.ok
    /\ Field(Given.dict, "deal_stage") = "maybe"
    /\ Field(Given.dict, "interest_level") = "hot"
    /\ RejectedFor(val_outcome, "deal_stage")

\* A YYYY-MM-DD text: four digits, two digits and two digits between dashes,
\* which name a day of the calendar.
IsoDate(v) ==
    /\ Len(v) = 10
    /\ Char(v, 5) = "-" /\ Char(v, 8) = "-"
    /\ AllDigits(Slice(v, 1, 4)) /\ AllDigits(Slice(v, 6, 7)) /\ AllDigits(Slice(v, 9, 10))
    /\ Number(Slice(v, 1, 4)) >= 1
    /\ Number(Slice(v, 6, 7)) \in 1..12
    /\ Number(Slice(v, 9, 10)) >= 1
    /\ Number(Slice(v, 9, 10)) <= DaysIn(Number(Slice(v, 1, 4)), Number(Slice(v, 6, 7)))

\* The invariants of the data model on a record.
RecordInvariants(r) ==
    /\ Len(r.summary) >= MinSummaryLen
    /\ Len(r.next_action) >= MinNextActionLen
    /\ r.deal_stage \in DealStage
    /\ r.interest_level \in InterestLevel
    /\ r.followup_date = None \/ IsoDate(r.followup_date)

\* C21: every record the validator returns has a summary of at least 10
\* characters, a next_action of at least 5, deal_stage and interest_level in
\* their sets and a followup_date that is absent or a YYYY-MM-DD text naming a
\* calendar date; the date "03/10/2025" is rejected with a schema failure.
ClaimC21 ==
    /\ val_outcome.kind = "return" => RecordInvariants(val_outcome.value[1])
    /\ (val_outcome # NoOutcome /\ Given.ok
            /\ Field(Given.dict, "followup_date") = "03/10/2025")
           => RejectedFor(val_outcome, "followup_date")

\* CRMData.json(): every field of the record, None written as null.
Serialized(r) ==
    JsonText([summary |-> r.summary, deal_stage |-> Present(r.deal_stage),
              objections |-> Present(r.objections),
              interest_level |-> Present(r.interest_level),
              next_action |-> Present(r.next_action),
              followup_date |-> Present(r.followup_date)])

\* C22: validation is idempotent on its own output: the record returned,
\* serialized and validated again, is returned again equal in every field.
InvC22 ==
    val_outcome.kind = "return"
        => validate_json_output(Serialized(val_outcome.value[1])) = val_outcome

\* The validator has returned a record whose objections it normalized to
\* absent and whose followup_date is set.
WitC22 ==
    /\ val_outcome.kind = "return"
    /\ Given.ok
    /\ Field(Given.dict, "objections") = "none"
    /\ val_outcome.value[1].objections = None
    /\ val_outcome.value[1].followup_date = "2025-03-10"

(***************************************************************************)
(* Properties of the similarity scorer (SpecSimilarity)                    *)
(***************************************************************************)

\* C23: the similarity scorer is symmetric: the score of two texts is the
\* score of the same texts in the other order.
ClaimC23 == sim_result # <<>> => sim_result[1] = sim_result[2]

(***************************************************************************)
(* Properties of follow-up generation (SpecGenerate)                       *)
(***************************************************************************)

\* The run of generate found its client: a generation call was made.
ClientFound == gen_sent # <<>>

\* The generation calls made so far: the email prompt, then the message
\* prompt, each once.
TwoCallsInOrder ==
    /\ Len(gen_sent) <= 2
    /\ Len(gen_sent) >= 1 => FirstIndex(gen_sent[1], "Write a follow-up email", 1) = 1
    /\ Len(gen_sent) = 2 => FirstIndex(gen_sent[2], "Create a short, casual message", 1) = 1

InvC25 ==
    [][/\ \A i \in 1..Len(interactions) : \A j \in 1..Len(interactions') :
              interactions'[j].id = interactions[i].id
                  => interactions'[j] = interactions[i]
       /\ interSeq' # interSeq =>
              /\ Len(interactions') = Len(interactions) + 1
              /\ SubSeq(interactions', 1, Len(interactions)) = interactions
              /\ interactions'[Len(interactions')].id = interSeq + 1
              /\ \A i \in 1..Len(interactions) : interactions[i].id # interSeq + 1
       /\ (lastCall' # lastCall /\ lastCall'.op = "create_interaction") =>
              interSeq' = interSeq + 1]_vars

\* A deal was saved and then marked as won: the table holds both rows.
WitC25 ==
    /\ Len(interactions) = 2
    /\ interactions[1].deal_stage = "proposal"
    /\ interactions[2].deal_stage = "closed_won"
    /\ interactions[2].client_id = interactions[1].client_id

\* The follow-ups stored for an interaction.
FollowupsOf(interaction_id) ==
    { i \in 1..Len(followups) : followups[i].interaction_id = interaction_id }

\* C28: after any sequence of Process with AI, Save to Database, Generate
\* Follow-up Now and Mark as Won / Lost / Skip, every stored interaction has at
\* most one follow-up, and get_followup of the interaction returns it.
InvC28 ==
    \A i \in 1..Len(interactions) :
        /\ Cardinality(FollowupsOf(interactions[i].id)) <= 1
        /\ \A f \in FollowupsOf(interactions[i].id) :
               get_followup(followups, interactions[i].id) = Present(followups[f])

\* Two interactions of one client are stored, each with its own follow-up, the
\* second follow-up just stored.
WitC28 ==
    /\ Len(interactions) >= 2
    /\ interactions[1].client_id = interactions[2].client_id
    /\ Len(followups) = 2
    /\ followups[1].interaction_id # followups[2].interaction_id
    /\ lastCall.op = "create_followup"

\* C30: the store holds at most one interaction for the processed result of
\* the session, whatever Save to Database clicks followed its Process with AI,
\* a Save whose create_followup failed included; and when follow-ups were
\* generated for the result, an interaction stored for it has its follow-up.
ClaimC30 ==
    /\ Len(ss_saved) <= 1
    /\ \A k \in 1..Len(ss_saved) :
           ss_followups # Absent => get_followup(followups, ss_saved[k]) # Absent

\* The same processed result stored twice.
StoredTwice ==
    /\ Len(ss_saved) = 2
    /\ interactions[Len(interactions)].raw_text = interactions[Len(interactions) - 1].raw_text

(***************************************************************************)
(* Properties of non-forced creation by a single writer (SpecChecked)      *)
(***************************************************************************)

\* The row later, scored as candidate against the row earlier, is a duplicate:
\* the emails match or the total score reaches the threshold.
DuplicateOf(later, earlier) ==
    LET scores == ScoreRow(earlier, later.name, later.email, later.company)
    IN  \/ scores.email_match
        \/ FracGE(scores.total_score, FracInt(DUPLICATE_SIMILARITY_THRESHOLD))

\* C29: with create_client never forced, soft delete and hard delete, no
\* active client is a duplicate of an active client created before it.
InvC29 ==
    \A i \in 1..Len(clients), j \in 1..Len(clients) :
        (i < j /\ IsActive(clients[i]) /\ IsActive(clients[j]))
            => ~DuplicateOf(clients[j], clients[i])

\* Two active clients, the later just created without force.
WitC29 ==
    /\ Len(clients) = 2
    /\ IsActive(clients[1]) /\ IsActive(clients[2])
    /\ lastCall.op = "create_client"
    /\ ~lastCall.flag
    /\ lastCall.out.kind = "return"

(***************************************************************************)
(* Properties of the Clients page (SpecNewClient)                          *)
(***************************************************************************)

\* The tab "Deleted Clients" shows the client with its buttons "Restore" and
\* "Delete Forever".
RestoreOffered(id) ==
    \E k \in 1..Len(deleted_clients(clients)) : deleted_clients(clients)[k].id = id

\* C27: a client soft-deleted on the Clients page is listed in the tab "Deleted
\* Clients", where its Restore and Delete Forever buttons are.
ClaimC27 ==
    \A i \in 1..Len(clients) : ~IsActive(clients[i]) => RestoreOffered(clients[i].id)

(***************************************************************************)
(* Properties of concurrent creation (SpecConcurrent)                      *)
(***************************************************************************)

\* Writer w's call returned the row it inserted.
Inserted(w) == writers[w].pc = "done" /\ writers[w].out.kind = "return"

\* The row of the table that writer w inserted.
RowOf(w) ==
    clients[CHOOSE i \in 1..Len(clients) : clients[i].id = writers[w].out.value[1].id]

\* C26: the duplicate check and the insert of create_client are two steps.  A
\* call inserts exactly when its own check found no duplicate, whatever was
\* inserted between its check and its insert: when the rows two concurrent
\* calls inserted are duplicates, the later row's check was made before the
\* earlier row was inserted.  Such an interleaving exists (WitC26).
InvC26 ==
    /\ \A w \in Writers :
           writers[w].pc = "checked" \/ Inserted(w) =>
               find_potential_duplicates(
                   SelectSeq(clients, LAMBDA r : r.id <= writers[w].checked_at),
                   writers[w].client.name, writers[w].client.email,
                   writers[w].client.company) = <<>>
    /\ \A w \in Writers, v \in Writers :
           (/\ Inserted(w) /\ Inserted(v)
            /\ RowOf(v).id < RowOf(w).id
            /\ DuplicateOf(RowOf(w), RowOf(v)))
               => writers[w].checked_at < RowOf(v).id

\* Both writers passed the duplicate check and inserted, and the two active
\* rows match each other: the later is a duplicate of the earlier.
WitC26 ==
    /\ Inserted("a") /\ Inserted("b")
    /\ RowOf("a").id # RowOf("b").id
    /\ IsActive(RowOf("a")) /\ IsActive(RowOf("b"))
    /\ \/ DuplicateOf(RowOf("a"), RowOf("b"))
       \/ DuplicateOf(RowOf("b"), RowOf("a"))

====
